---------------------------- MODULE Spec2Model ----------------------------
(***************************************************************************)
(* CrimeWeb episode relatedness engine: extractKeyTerms,                   *)
(* calculateMatchScore and findRelatedEpisodes (src/unnamed/part_016).     *)
(*                                                                         *)
(* Texts are sequences of tokens, scores are IEEE-754 doubles carried      *)
(* exactly, Array.prototype.sort is the engine's algorithm for arrays      *)
(* shorter than 64 elements (run detection, then binary insertion).        *)
(***************************************************************************)
EXTENDS Integers, Sequences, FiniteSets, TLC

(***************************************************************************)
(* IEEE-754 binary64 arithmetic on the values the scorer produces.         *)
(*                                                                         *)
(* A double d is the pair <<c, r>> whose exact value is                    *)
(*      c/100 + r * U,      U = 2^-57 / 100,                               *)
(* c the cents of the decimal the code writes and r the (small) rounding   *)
(* error in units of U.  Every double in [1/32, 2) is a multiple of        *)
(* 100 * U, so sums of such doubles are exact in this representation, and  *)
(* rounding to nearest-even is a computation modulo the binade's ulp:      *)
(* 2^57 mod 6400 = 3072, so (c * 2^57 + r) mod M = (c * 3072 + r) mod M    *)
(* for every ulp M dividing 6400.                                          *)
(***************************************************************************)

\* x >= t8/800 for the pair x (t8 in eighths of a cent).
GeEighths(x, t8) == (8 * x[1] > t8) \/ (8 * x[1] = t8 /\ x[2] >= 0)

\* ulp, in units of U, of the binade of x, for 1/32 <= x < 2.
Ulp(x) ==
    IF GeEighths(x, 800) THEN 3200
    ELSE IF GeEighths(x, 400) THEN 1600
    ELSE IF GeEighths(x, 200) THEN 800
    ELSE IF GeEighths(x, 100) THEN 400
    ELSE IF GeEighths(x, 50) THEN 200
    ELSE 100

\* Round the exact value x to the nearest double, ties to even.
RoundToDouble(x) ==
    IF x[1] = 0 /\ x[2] = 0 THEN x
    ELSE LET M == Ulp(x)
             m == (x[1] * 3072 + x[2]) % M
             down == <<x[1], x[2] - m>>
             up == <<x[1], x[2] + M - m>>
         IN  IF 2 * m < M THEN down
             ELSE IF 2 * m > M THEN up
             ELSE IF (x[1] * 3072 + x[2] - m) % (2 * M) = 0 THEN down
             ELSE up

\* The double a decimal literal with two places denotes (0.15 is Dbl(15)).
Dbl(cents) == RoundToDouble(<<cents, 0>>)

\* a + b and n * a in double arithmetic.
FAdd(a, b) == RoundToDouble(<<a[1] + b[1], a[2] + b[2]>>)
FMulInt(n, a) == RoundToDouble(<<n * a[1], n * a[2]>>)

\* a - b.  The scorer's values are 0 or lie in [0.5, 1], where the
\* difference of two doubles is itself a double: no rounding happens.
FSub(a, b) == <<a[1] - b[1], a[2] - b[2]>>

FNeg(a) == <<0 - a[1], 0 - a[2]>>
FLt(a, b) == (a[1] < b[1]) \/ (a[1] = b[1] /\ a[2] < b[2])
FLe(a, b) == (a = b) \/ FLt(a, b)
FAbs(a) == IF FLt(a, <<0, 0>>) THEN FNeg(a) ELSE a
FMin(a, b) == IF FLt(b, a) THEN b ELSE a
\* The sign of a double: -1, 0 or 1.
FSign(a) == IF FLt(a, <<0, 0>>) THEN -1 ELSE IF a = <<0, 0>> THEN 0 ELSE 1

(***************************************************************************)
(* Text.  A string is the sequence of its tokens: a word (a maximal run of *)
(* letters), a number (a maximal run of digits), a whitespace run or one   *)
(* punctuation character.  A token carries                                 *)
(*   k   "w" word, "n" number, "s" whitespace, "p" punctuation             *)
(*   lc  the token's characters, lower-cased                               *)
(*   sh  a word's letter case: "Cap" (one capital, then one or more lower  *)
(*       case letters: [A-Z][a-z]+), "low" (all lower case), "UP" (all     *)
(*       capitals), "mix" (anything else); "-" for the other kinds         *)
(*   v   a number's value (0 for the other kinds)                          *)
(* A whitespace run is a run of blanks or the single line feed "\n".       *)
(* A term (an extracted name or location) is the sequence of the           *)
(* lower-cased pieces of the matched text: word, whitespace, word, ...     *)
(***************************************************************************)
Cap(w) == [k |-> "w", lc |-> w, sh |-> "Cap", v |-> 0]
Low(w) == [k |-> "w", lc |-> w, sh |-> "low", v |-> 0]
Up(w) == [k |-> "w", lc |-> w, sh |-> "UP", v |-> 0]
Ws(s) == [k |-> "s", lc |-> s, sh |-> "-", v |-> 0]
Pn(c) == [k |-> "p", lc |-> c, sh |-> "-", v |-> 0]
Num(d, n) == [k |-> "n", lc |-> d, sh |-> "-", v |-> n]
Sp == Ws(" ")

\* `${a}${b}`: two whitespace runs that meet become one run.
TextConcat(a, b) ==
    IF a # <<>> /\ b # <<>> /\ a[Len(a)].k = "s" /\ b[1].k = "s"
    THEN SubSeq(a, 1, Len(a) - 1) \o <<Ws(a[Len(a)].lc \o b[1].lc)>> \o Tail(b)
    ELSE a \o b

InText(t, i) == i >= 1 /\ i <= Len(t)
\* [A-Z][a-z]+ matches exactly the token at i.
IsCapWord(t, i) == InText(t, i) /\ t[i].k = "w" /\ t[i].sh = "Cap"
\* [A-Z][a-z]+ under the i flag: any word of two letters or more.
IsAnyWord2(t, i) == InText(t, i) /\ t[i].k = "w" /\ Len(t[i].lc) >= 2
\* \s+ matches exactly the token at i.
IsSpace(t, i) == InText(t, i) /\ t[i].k = "s"
IsPunct(t, i, c) == InText(t, i) /\ t[i].k = "p" /\ t[i].lc = c
\* The character next to a token on that side is a word character (\w).
IsWordChar(t, i) ==
    InText(t, i) /\ (t[i].k \in {"w", "n"} \/ IsPunct(t, i, "_"))
\* \b holds before token i / after token i, for a word or number token i.
BoundaryBefore(t, i) == ~IsWordChar(t, i - 1)
BoundaryAfter(t, i) == ~IsWordChar(t, i + 1)

\* regex.exec from token i on: the leftmost token at or after i where the
\* pattern Match matches, 0 when it matches nowhere.
Leftmost(Match(_, _), t, i) ==
    LET found == {j \in i..Len(t) : Match(t, j)} IN
    IF found = {} THEN 0
    ELSE CHOOSE j \in found : \A k \in found : j <= k

\* [...new Set(xs)]: first occurrences, in order.
RECURSIVE Dedupe(_, _)
Dedupe(xs, acc) ==
    IF xs = <<>> THEN acc
    ELSE Dedupe(Tail(xs),
                IF \E j \in 1..Len(acc) : acc[j] = Head(xs)
                THEN acc ELSE Append(acc, Head(xs)))

SeqHas(xs, x) == \E j \in 1..Len(xs) : xs[j] = x
\* namesSet.add(x)
SetAdd(xs, x) == IF SeqHas(xs, x) THEN xs ELSE Append(xs, x)

\* The lower-cased pieces of t[i..j].
RECURSIVE LowerPieces(_, _, _)
LowerPieces(t, i, j) ==
    IF i > j THEN <<>> ELSE <<t[i].lc>> \o LowerPieces(t, i + 1, j)

\* term.split(/\s+/): the words of a term.
RECURSIVE SplitWs(_)
SplitWs(term) ==
    IF term = <<>> THEN <<>>
    ELSE IF Len(term) = 1 THEN <<term[1]>>
    ELSE <<term[1]>> \o SplitWs(SubSeq(term, 3, Len(term)))

\* The number of characters of a term.
RECURSIVE TermLength(_)
TermLength(term) ==
    IF term = <<>> THEN 0 ELSE Len(Head(term)) + TermLength(Tail(term))

\* Common words to filter out when extracting names.
STOP_WORDS ==
    {"the", "a", "an", "and", "or", "but", "in", "on", "at", "to", "for",
     "of", "with", "by", "from", "as", "is", "was", "are", "were", "been",
     "be", "have", "has", "had", "do", "does", "did", "will", "would",
     "could", "should", "may", "might", "must", "shall", "can", "need",
     "dare", "ought", "used", "it", "its", "he", "she", "they", "them",
     "his", "her", "their", "this", "that", "these", "those", "what",
     "which", "who", "whom", "whose", "when", "where", "why", "how", "all",
     "each", "every", "both", "few", "more", "most", "other", "some",
     "such", "no", "nor", "not", "only", "own", "same", "so", "than",
     "too", "very", "just", "also", "now", "here", "there", "then", "once",
     "after", "before", "being", "into", "through", "during", "until",
     "while", "about", "against", "between", "under", "over", "again",
     "further", "part", "story", "mystery", "murder", "death", "killer",
     "killing", "crime", "investigation", "police", "detective", "victim",
     "suspect", "accused", "trial", "episode", "special", "update", "new",
     "exclusive", "inside", "behind", "true", "real", "deadly", "dark",
     "secret", "secrets", "hidden", "revealed", "untold", "case", "family",
     "found", "young", "woman", "man", "mother", "father", "husband",
     "wife", "daughter", "son", "friend", "home", "night", "day", "year",
     "years", "time", "life", "body", "scene", "evidence", "first", "last",
     "one", "two", "trouble", "hunt", "perfect", "morning", "spring",
     "summer", "fall", "winter", "cold", "hot", "final", "fatal",
     "dangerous", "missing", "lost", "gone", "taken", "vanished",
     "disappeared", "justice", "verdict", "truth", "lies", "betrayal",
     "love", "hate", "evil", "innocent", "guilty", "devil", "angel",
     "saint", "sinner", "stranger"}

\* US states and common location words (single-word fragments).
US_STATES ==
    {"alabama", "alaska", "arizona", "arkansas", "california", "colorado",
     "connecticut", "delaware", "florida", "georgia", "hawaii", "idaho",
     "illinois", "indiana", "iowa", "kansas", "kentucky", "louisiana",
     "maine", "maryland", "massachusetts", "michigan", "minnesota",
     "mississippi", "missouri", "montana", "nebraska", "nevada",
     "hampshire", "jersey", "mexico", "york", "carolina", "dakota", "ohio",
     "oklahoma", "oregon", "pennsylvania", "island", "tennessee", "texas",
     "utah", "vermont", "virginia", "washington", "wisconsin", "wyoming"}

\* Full US state names, as lowercase terms (words and the blanks between).
fullStateNames ==
    {<<"alabama">>, <<"alaska">>, <<"arizona">>, <<"arkansas">>,
     <<"california">>, <<"colorado">>, <<"connecticut">>, <<"delaware">>,
     <<"florida">>, <<"georgia">>, <<"hawaii">>, <<"idaho">>,
     <<"illinois">>, <<"indiana">>, <<"iowa">>, <<"kansas">>,
     <<"kentucky">>, <<"louisiana">>, <<"maine">>, <<"maryland">>,
     <<"massachusetts">>, <<"michigan">>, <<"minnesota">>,
     <<"mississippi">>, <<"missouri">>, <<"montana">>, <<"nebraska">>,
     <<"nevada">>, <<"ohio">>, <<"oklahoma">>, <<"oregon">>,
     <<"pennsylvania">>, <<"tennessee">>, <<"texas">>, <<"utah">>,
     <<"vermont">>, <<"virginia">>, <<"washington">>, <<"wisconsin">>,
     <<"wyoming">>, <<"new", " ", "hampshire">>, <<"new", " ", "jersey">>,
     <<"new", " ", "mexico">>, <<"new", " ", "york">>,
     <<"north", " ", "carolina">>, <<"north", " ", "dakota">>,
     <<"south", " ", "carolina">>, <<"south", " ", "dakota">>,
     <<"west", " ", "virginia">>, <<"rhode", " ", "island">>}

\* State abbreviations (upper case in the source, held in lower case here).
stateAbbreviations ==
    {"al", "ak", "az", "ar", "ca", "co", "ct", "de", "fl", "ga", "hi",
     "id", "il", "in", "ia", "ks", "ky", "la", "me", "md", "ma", "mi",
     "mn", "ms", "mo", "mt", "ne", "nv", "nh", "nj", "nm", "ny", "nc",
     "nd", "oh", "ok", "or", "pa", "ri", "sc", "sd", "tn", "tx", "ut",
     "vt", "va", "wa", "wv", "wi", "wy", "dc"}

\* Common non-name pairs (geographic, etc.).
skipPairs ==
    {<<"blue", " ", "mountains">>, <<"fort", " ", "bragg">>,
     <<"tarpon", " ", "springs">>, <<"north", " ", "carolina">>,
     <<"south", " ", "carolina">>, <<"north", " ", "dakota">>,
     <<"south", " ", "dakota">>, <<"new", " ", "york">>,
     <<"new", " ", "jersey">>, <<"new", " ", "mexico">>,
     <<"new", " ", "hampshire">>, <<"west", " ", "virginia">>,
     <<"rhode", " ", "island">>}


(***************************************************************************)
(* extractNames                                                            *)
(***************************************************************************)
\* fullNamePattern /\b([A-Z][a-z]+)\s+([A-Z][a-z]+)\b/ matches at token i.
FullNameAt(t, i) ==
    /\ IsCapWord(t, i) /\ BoundaryBefore(t, i)
    /\ IsSpace(t, i + 1)
    /\ IsCapWord(t, i + 2) /\ BoundaryAfter(t, i + 2)

\* Every match of the first while loop dropped.
FullNameKeepNone(firstName, lastName) == FALSE

\* The body of the first while loop for the match at i.
FullNameKeep(firstName, lastName) ==
    /\ firstName # lastName
    /\ ~(firstName \in STOP_WORDS \/ lastName \in STOP_WORDS)
    /\ ~(firstName \in US_STATES \/ lastName \in US_STATES)
    /\ <<firstName, " ", lastName>> \notin skipPairs

\* The exec loop resuming at the second word of a match the body skipped.
RECURSIVE ScanFullNamesRetry(_, _, _)
ScanFullNamesRetry(t, from, namesSet) ==
    LET i == Leftmost(FullNameAt, t, from) IN
    IF i = 0 THEN namesSet
    ELSE IF FullNameKeep(t[i].lc, t[i + 2].lc)
    THEN ScanFullNamesRetry(t, i + 3,
            SetAdd(namesSet, <<t[i].lc, " ", t[i + 2].lc>>))
    ELSE ScanFullNamesRetry(t, i + 2, namesSet)

\* Pattern 1: the exec loop from token i on; matches do not overlap.
RECURSIVE ScanFullNames(_, _, _)
ScanFullNames(t, from, namesSet) ==
    LET i == Leftmost(FullNameAt, t, from) IN
    IF i = 0 THEN namesSet
    ELSE ScanFullNames(t, i + 3,
            IF FullNameKeep(t[i].lc, t[i + 2].lc)
            THEN SetAdd(namesSet, <<t[i].lc, " ", t[i + 2].lc>>)
            ELSE namesSet)

\* 's\b at tokens i, i+1.
PossessiveAt(t, i) ==
    /\ IsPunct(t, i, "'")
    /\ InText(t, i + 1) /\ t[i + 1].k = "w" /\ t[i + 1].lc = "s"
    /\ t[i + 1].sh = "low" /\ BoundaryAfter(t, i + 1)

\* possessivePattern /\b([A-Z][a-z]+(?:\s+[A-Z][a-z]+)?)'s\b/ at token i:
\* the number of tokens of group 1 (3 or 1), 0 when there is no match.
PossessiveLen(t, i) ==
    IF ~(IsCapWord(t, i) /\ BoundaryBefore(t, i)) THEN 0
    ELSE IF IsSpace(t, i + 1) /\ IsCapWord(t, i + 2) /\ PossessiveAt(t, i + 3)
    THEN 3
    ELSE IF PossessiveAt(t, i + 1) THEN 1
    ELSE 0

HasStopOrState(words) ==
    \E j \in 1..Len(words) : words[j] \in STOP_WORDS \/ words[j] \in US_STATES

\* Pattern 2: names with possessive.
PossessiveMatch(t, i) == PossessiveLen(t, i) > 0
RECURSIVE ScanPossessives(_, _, _)
ScanPossessives(t, from, namesSet) ==
    LET i == Leftmost(PossessiveMatch, t, from) IN
    IF i = 0 THEN namesSet
    ELSE LET n == PossessiveLen(t, i)
             name == LowerPieces(t, i, i + n - 1)
             words == SplitWs(name)
         IN  ScanPossessives(t, i + n + 2,
                IF HasStopOrState(words) THEN namesSet
                ELSE IF Len(words) >= 2 /\ ~SeqHas(namesSet, name)
                THEN Append(namesSet, name)
                ELSE namesSet)

\* The cue of contextPattern ends at token i: the pattern has the i flag
\* and no \b before the cue, so the cue is the end of the word at i (the
\* whole word, or the tail of a longer one as in "codefendant").  The token
\* after the cue is i + CueLen.
ContextCues ==
    {"victim", "accused", "suspect", "defendant", "nurse", "doctor",
     "specialist"}
EndsWith(w, cue) ==
    Len(w) >= Len(cue) /\ SubSeq(w, Len(w) - Len(cue) + 1, Len(w)) = cue
CueLen(t, i) ==
    IF ~(InText(t, i) /\ t[i].k = "w") THEN 0
    ELSE IF \E cue \in ContextCues : EndsWith(t[i].lc, cue) THEN 1
    ELSE IF EndsWith(t[i].lc, "dr") /\ IsPunct(t, i + 1, ".") THEN 2
    ELSE 0

\* contextPattern matches with its cue at token i.
ContextAt(t, i) ==
    LET c == CueLen(t, i) IN
    /\ c > 0
    /\ IsSpace(t, i + c)
    /\ IsAnyWord2(t, i + c + 1)
    /\ IsSpace(t, i + c + 2)
    /\ IsAnyWord2(t, i + c + 3) /\ BoundaryAfter(t, i + c + 3)

\* Pattern 3: names after key phrases.
RECURSIVE ScanContext(_, _, _)
ScanContext(t, from, namesSet) ==
    LET i == Leftmost(ContextAt, t, from) IN
    IF i = 0 THEN namesSet
    ELSE LET c == CueLen(t, i)
             name == LowerPieces(t, i + c + 1, i + c + 3)
         IN  ScanContext(t, i + c + 4,
                IF HasStopOrState(SplitWs(name)) THEN namesSet
                ELSE SetAdd(namesSet, name))

extractNames(text) ==
    IF text = <<>> THEN <<>>
    ELSE ScanContext(text, 1,
            ScanPossessives(text, 1, ScanFullNames(text, 1, <<>>)))

(***************************************************************************)
(* extractLocations                                                        *)
(***************************************************************************)
\* The state group of cityStatePattern, ([A-Z][a-z]+(?:\s+[A-Z][a-z]+)?|
\* [A-Z]{2})\b, at token i: the number of tokens it takes (3 or 1), 0 when
\* it does not match.  The optional second word is taken when it is there.
StateGroupLen(t, i) ==
    IF IsCapWord(t, i)
    THEN IF IsSpace(t, i + 1) /\ IsCapWord(t, i + 2) /\ BoundaryAfter(t, i + 2)
         THEN 3
         ELSE IF BoundaryAfter(t, i) THEN 1 ELSE 0
    ELSE IF InText(t, i) /\ t[i].k = "w" /\ t[i].sh = "UP"
            /\ Len(t[i].lc) = 2 /\ BoundaryAfter(t, i)
    THEN 1
    ELSE 0

\* The city group, \b([A-Z][a-z]+(?:\s+[A-Z][a-z]+)?), at token i, followed
\* by the comma: the number of tokens of the group (3 or 1), 0 for no match.
CityGroupLen(t, i) ==
    IF ~(IsCapWord(t, i) /\ BoundaryBefore(t, i)) THEN 0
    ELSE IF IsSpace(t, i + 1) /\ IsCapWord(t, i + 2) /\ IsPunct(t, i + 3, ",")
    THEN 3
    ELSE IF IsPunct(t, i + 1, ",") THEN 1
    ELSE 0

\* cityStatePattern at token i: <<tokens of the city, tokens between the
\* city and the state (the comma and \s*), tokens of the state>>, or
\* <<0, 0, 0>> when it does not match there.
CityStateAt(t, i) ==
    LET c == CityGroupLen(t, i)
        gap == IF IsSpace(t, i + c + 1) THEN 2 ELSE 1
        s == StateGroupLen(t, i + c + gap)
    IN  IF c = 0 \/ s = 0 THEN <<0, 0, 0>> ELSE <<c, gap, s>>

\* stateSet.has(stateLower) || stateAbbreviations.has(state)
isValidState(t, i, n) ==
    \/ LowerPieces(t, i, i + n - 1) \in fullStateNames
    \/ (n = 1 /\ t[i].sh = "UP" /\ t[i].lc \in stateAbbreviations)

\* Pattern 1: "City, State" or "City, ST".
CityStateMatch(t, i) == CityStateAt(t, i)[1] > 0
RECURSIVE ScanCityState(_, _, _)
ScanCityState(t, from, locations) ==
    LET i == Leftmost(CityStateMatch, t, from) IN
    IF i = 0 THEN locations
    ELSE LET m == CityStateAt(t, i)
             si == i + m[1] + m[2]
         IN  ScanCityState(t, si + m[3],
                IF isValidState(t, si, m[3])
                THEN locations \o <<LowerPieces(t, i, i + m[1] - 1),
                                    LowerPieces(t, si, si + m[3] - 1)>>
                ELSE locations)

\* The word County, followed by \b, at token i.
IsCounty(t, i) ==
    IsCapWord(t, i) /\ t[i].lc = "county" /\ BoundaryAfter(t, i)

\* countyPattern /\b([A-Z][a-z]+(?:\s+[A-Z][a-z]+)?)\s+County\b/ at token
\* i: the number of tokens of group 1 (3 or 1), 0 for no match.
CountyLen(t, i) ==
    IF ~(IsCapWord(t, i) /\ BoundaryBefore(t, i)) THEN 0
    ELSE IF IsSpace(t, i + 1) /\ IsCapWord(t, i + 2) /\ IsSpace(t, i + 3)
            /\ IsCounty(t, i + 4)
    THEN 3
    ELSE IF IsSpace(t, i + 1) /\ IsCounty(t, i + 2) THEN 1
    ELSE 0

\* Pattern 2: "[Place] County".
CountyMatch(t, i) == CountyLen(t, i) > 0
RECURSIVE ScanCounty(_, _, _)
ScanCounty(t, from, locations) ==
    LET i == Leftmost(CountyMatch, t, from) IN
    IF i = 0 THEN locations
    ELSE LET n == CountyLen(t, i)
             county == LowerPieces(t, i, i + n - 1)
         IN  ScanCounty(t, i + n + 2,
                IF ~(Len(county) = 1 /\ county[1] \in STOP_WORDS)
                   /\ TermLength(county) > 2
                THEN Append(locations, county \o <<" ", "county">>)
                ELSE locations)

\* fortPattern /\bFort\s+([A-Z][a-z]+)\b/ at token i.
FortAt(t, i) ==
    /\ IsCapWord(t, i) /\ t[i].lc = "fort" /\ BoundaryBefore(t, i)
    /\ IsSpace(t, i + 1)
    /\ IsCapWord(t, i + 2) /\ BoundaryAfter(t, i + 2)

\* Pattern 3: "Fort [Name]".
RECURSIVE ScanFort(_, _, _)
ScanFort(t, from, locations) ==
    LET i == Leftmost(FortAt, t, from) IN
    IF i = 0 THEN locations
    ELSE ScanFort(t, i + 3, Append(locations, <<"fort", " ", t[i + 2].lc>>))

\* statePattern (flags gi) at token i: the number of tokens matched (1 for
\* a one-word state, 3 for a two-word state written with one blank), 0
\* when it does not match there.
StateNameLen(t, i) ==
    IF ~(InText(t, i) /\ t[i].k = "w" /\ BoundaryBefore(t, i)) THEN 0
    ELSE IF <<t[i].lc>> \in fullStateNames /\ BoundaryAfter(t, i) THEN 1
    ELSE IF IsSpace(t, i + 1) /\ t[i + 1].lc = " "
            /\ InText(t, i + 2) /\ t[i + 2].k = "w"
            /\ <<t[i].lc, " ", t[i + 2].lc>> \in fullStateNames
            /\ BoundaryAfter(t, i + 2)
    THEN 3
    ELSE 0

\* Pattern 4: state names mentioned standalone.
StateNameMatch(t, i) == StateNameLen(t, i) > 0
RECURSIVE ScanStates(_, _, _)
ScanStates(t, from, locations) ==
    LET i == Leftmost(StateNameMatch, t, from) IN
    IF i = 0 THEN locations
    ELSE LET n == StateNameLen(t, i) IN
         ScanStates(t, i + n, Append(locations, LowerPieces(t, i, i + n - 1)))

extractLocations(text) ==
    IF text = <<>> THEN <<>>
    ELSE Dedupe(ScanStates(text, 1,
                   ScanFort(text, 1,
                      ScanCounty(text, 1, ScanCityState(text, 1, <<>>)))),
                <<>>)

(***************************************************************************)
(* extractYears                                                            *)
(***************************************************************************)
\* The pattern with 19\d\d for 19[7-9]\d: every year of the 1900s matches.
YearAtFrom1900(t, i) ==
    /\ InText(t, i) /\ t[i].k = "n" /\ Len(t[i].lc) = 4
    /\ t[i].v >= 1900 /\ t[i].v <= 2029
    /\ BoundaryBefore(t, i) /\ BoundaryAfter(t, i)

\* yearPattern /\b(19[7-9]\d|20[0-2]\d)\b/ matches the token at i.
YearAt(t, i) ==
    /\ InText(t, i) /\ t[i].k = "n" /\ Len(t[i].lc) = 4
    /\ ((t[i].v >= 1970 /\ t[i].v <= 1999) \/ (t[i].v >= 2000 /\ t[i].v <= 2029))
    /\ BoundaryBefore(t, i) /\ BoundaryAfter(t, i)

RECURSIVE ScanYears(_, _, _)
ScanYears(t, from, years) ==
    LET i == Leftmost(YearAt, t, from) IN
    IF i = 0 THEN years
    ELSE ScanYears(t, i + 1, Append(years, t[i].lc))

extractYears(text) ==
    IF text = <<>> THEN <<>> ELSE Dedupe(ScanYears(text, 1, <<>>), <<>>)

\* Extract all key identifiers from episode text.
extractKeyTerms(text) ==
    [names |-> extractNames(text),
     locations |-> extractLocations(text),
     years |-> extractYears(text)]

(***************************************************************************)
(* Strings built by the scorer                                             *)
(***************************************************************************)
\* The string a term stands for.
RECURSIVE TermStr(_)
TermStr(term) ==
    IF term = <<>> THEN "" ELSE Head(term) \o TermStr(Tail(term))

\* strs.join(sep)
RECURSIVE Join(_, _)
Join(strs, sep) ==
    IF strs = <<>> THEN ""
    ELSE IF Len(strs) = 1 THEN strs[1]
    ELSE strs[1] \o sep \o Join(Tail(strs), sep)

\* term.split(' ') from piece i on: a run of n blanks separates n times, a
\* line feed does not separate.  Pieces at even positions are whitespace.
RECURSIVE SplitBlankFrom(_, _, _, _)
SplitBlankFrom(term, i, cur, parts) ==
    IF i > Len(term) THEN Append(parts, cur)
    ELSE IF i % 2 = 1 \/ term[i] = "\n"
    THEN SplitBlankFrom(term, i + 1, Append(cur, term[i]), parts)
    ELSE SplitBlankFrom(term, i + 1, <<>>,
            Append(parts, cur) \o [j \in 1..(Len(term[i]) - 1) |-> <<>>])

SplitBlank(term) == SplitBlankFrom(term, 1, <<>>, <<>>)

\* w.charAt(0).toUpperCase() + w.slice(1), on the words the catalogue's
\* texts are made of.
UpperFirst(w) ==
    CASE w = "john" -> "John" [] w = "smith" -> "Smith"
      [] w = "mary" -> "Mary" [] w = "johnson" -> "Johnson"
      [] w = "peter" -> "Peter" [] w = "brown" -> "Brown"
      [] w = "jane" -> "Jane" [] w = "austin" -> "Austin"
      [] w = "texas" -> "Texas" [] w = "tx" -> "Tx"
      [] w = "name)" -> "Name)" [] w = "(last" -> "(last"
      [] w = "vanished" -> "Vanished"
      [] w = "in" -> "In"
      [] w = "the" -> "The"
      [] w = "trio" -> "Trio"
      [] w = "who" -> "Who"
      [] w = "killed" -> "Killed"
      [] w = "two" -> "Two"
      [] w = "friends" -> "Friends"
      [] w = "heat" -> "Heat"
      [] w = "family" -> "Family"
      [] w = "ties" -> "Ties"
      [] w = "murder" -> "Murder"
      [] w = "case" -> "Case"
      [] w = "without" -> "Without"
      [] w = "trace" -> "Trace"
      [] w = "night" -> "Night"
      [] w = "shift" -> "Shift"
      [] w = "aftermath" -> "Aftermath"
      [] w = "timeline" -> "Timeline"
      [] w = "from" -> "From"
      [] w = "cold" -> "Cold"
      [] w = "new" -> "New"
      [] w = "" -> ""

\* The same on one part of a split term.
UpperFirstPart(part) ==
    IF part = <<>> THEN "" ELSE UpperFirst(part[1]) \o TermStr(Tail(part))

\* n.split(' ').map(w => w.charAt(0).toUpperCase() + w.slice(1)).join(' ')
TitleCase(term) ==
    LET parts == SplitBlank(term) IN
    Join([j \in 1..Len(parts) |-> UpperFirstPart(parts[j])], " ")

(***************************************************************************)
(* calculateMatchScore                                                     *)
(***************************************************************************)
\* `${episode.name} ${episode.overview || ''}`; a nullable field is <<>>
\* (null) or <<value>>.
EpisodeText(e) ==
    TextConcat(TextConcat(e.name, <<Sp>>),
               IF e.overview = <<>> THEN <<>> ELSE e.overview[1])

\* The surname branch left out: only equal names match.
NameMatchExactOnly(sName, tName) ==
    IF sName = tName THEN <<sName>> ELSE <<>>

\* What the inner loop body pushes for one (sName, tName): <<>> or one entry.
NameMatchOf(sName, tName) ==
    IF sName = tName THEN <<sName>>
    ELSE LET sParts == SplitBlank(sName)
             tParts == SplitBlank(tName)
         IN  IF Len(sParts) >= 2 /\ Len(tParts) >= 2
                /\ sParts[Len(sParts)] = tParts[Len(tParts)]
             THEN <<sParts[Len(sParts)] \o <<" ", "(last", " ", "name)">>>>
             ELSE <<>>

\* The nested loops over sourceTerms.names and targetTerms.names.
RECURSIVE NameMatchLoop(_, _, _, _, _)
NameMatchLoop(sNames, tNames, i, j, nameMatches) ==
    IF i > Len(sNames) THEN nameMatches
    ELSE IF j > Len(tNames) THEN NameMatchLoop(sNames, tNames, i + 1, 1, nameMatches)
    ELSE NameMatchLoop(sNames, tNames, i, j + 1,
            nameMatches \o NameMatchOf(sNames[i], tNames[j]))

\* xs.filter(x => ys.includes(x))
RECURSIVE Intersect(_, _)
Intersect(xs, ys) ==
    IF xs = <<>> THEN <<>>
    ELSE (IF SeqHas(ys, Head(xs)) THEN <<Head(xs)>> ELSE <<>>)
         \o Intersect(Tail(xs), ys)

Min(a, b) == IF a < b THEN a ELSE b
Max(a, b) == IF a > b THEN a ELSE b

\* The gate left out: the accumulated score and reason are returned as is.
NameGateOff(nameMatches, score, reason) ==
    [score |-> score, reason |-> reason]

\* The gate resetting the score alone: the reason built so far is kept.
NameGateKeepsReason(nameMatches, score, reason) ==
    IF Len(nameMatches) = 0
    THEN [score |-> <<0, 0>>, reason |-> reason]
    ELSE [score |-> score, reason |-> reason]

\* Minimum threshold: require at least a name match for a valid result.
NameGate(nameMatches, score, reason) ==
    IF Len(nameMatches) = 0
    THEN [score |-> <<0, 0>>, reason |-> ""]
    ELSE [score |-> score, reason |-> reason]

\* The clamp left out.
ClampScoreOff(score) == score

\* Math.min(1, score)
ClampScore(score) == FMin(<<100, 0>>, score)

\* The filter left out: every location of the source counts as shared.
LocationMatchesOfSource(sourceTerms, targetTerms) == sourceTerms.locations

\* sourceTerms.locations.filter(loc => targetTerms.locations.includes(loc))
LocationMatches(sourceTerms, targetTerms) ==
    Intersect(sourceTerms.locations, targetTerms.locations)

\* score += 0.2 for a location next to a name match, 0.1 for a location
\* alone.
AddLocationScore(score, located, named) ==
    IF located /\ named THEN FAdd(score, Dbl(20))
    ELSE IF located THEN FAdd(score, Dbl(10))
    ELSE score

\* score += 0.1 for a shared year.
AddYearScore(score, yeared) ==
    IF yeared THEN FAdd(score, Dbl(10)) ELSE score

\* return { score: Math.min(1, score), reason }
ScoreResult(gated) ==
    [score |-> ClampScore(gated.score), reason |-> gated.reason]

\* The scorer after the identity check, on the two extracted term sets.
ScoreFrom(nameMatches, locationMatches, yearMatches) ==
    LET named == Len(nameMatches) > 0
        score1 ==
            IF named
            THEN FAdd(<<0, 0>>,
                      FAdd(Dbl(50), FMulInt(Min(Len(nameMatches), 3), Dbl(15))))
            ELSE <<0, 0>>
        uniqueNames == LET u == Dedupe(nameMatches, <<>>)
                       IN  SubSeq(u, 1, Min(2, Len(u)))
        reasons1 ==
            IF named
            THEN <<[s |-> Join([j \in 1..Len(uniqueNames) |->
                                   TitleCase(uniqueNames[j])], ", "),
                    d4 |-> FALSE]>>
            ELSE <<>>
        located == Len(locationMatches) > 0
        score2 == AddLocationScore(score1, located, named)
        reasons2 ==
            IF located /\ named
            THEN Append(reasons1,
                        [s |-> UpperFirst(locationMatches[1][1])
                                  \o TermStr(Tail(locationMatches[1])),
                         d4 |-> FALSE])
            ELSE reasons1
        yeared == Len(yearMatches) > 0 /\ (named \/ located)
        score3 == AddYearScore(score2, yeared)
        reasons3 ==
            IF yeared /\ ~(\E j \in 1..Len(reasons2) : reasons2[j].d4)
            THEN Append(reasons2, [s |-> yearMatches[1], d4 |-> TRUE])
            ELSE reasons2
        reason == Join([j \in 1..Len(reasons3) |-> reasons3[j].s], " - ")
        gated == NameGate(nameMatches, score3, reason)
    IN  ScoreResult(gated)

\* The three match lists are built first, each once; the score and the
\* reason are computed from them.
ScoreTerms(sourceTerms, targetTerms) ==
    ScoreFrom(NameMatchLoop(sourceTerms.names, targetTerms.names, 1, 1, <<>>),
              LocationMatches(sourceTerms, targetTerms),
              Intersect(sourceTerms.years, targetTerms.years))

(***************************************************************************)
(* The episodes the calls are drawn from.  A nullable field is <<>> (null) *)
(* or <<value>>; an air date "YYYY-MM-DD" is <<y, m, d>>.                   *)
(***************************************************************************)
\* 101  Vanished  |  In 2020 John Smith, Mary Johnson and Peter Brown left Austin, Texas.  |  2021-05-01
EpVanished ==
    [id |-> 101, showTmdbId |-> 1, showName |-> "Dateline",
     name |->
        <<Cap("vanished")>>,
     overview |-> <<
        <<Cap("in"), Sp, Num("2020", 2020), Sp, Cap("john"), Sp,
          Cap("smith"), Pn(","), Sp, Cap("mary"), Sp, Cap("johnson"), Sp,
          Low("and"), Sp, Cap("peter"), Sp, Cap("brown"), Sp, Low("left"),
          Sp, Cap("austin"), Pn(","), Sp, Cap("texas"), Pn(".")>>>>,
     airDate |-> <<<<2021, 5, 1>>>>, seasonNumber |-> 1, episodeNumber |-> 1,
     stillPath |-> <<>>]

\* 101  The Trio  |  John Smith, Mary Johnson and Peter Brown are gone.  |  2022-03-01
EpVanishedRerun ==
    [id |-> 101, showTmdbId |-> 1, showName |-> "Dateline",
     name |->
        <<Cap("the"), Sp, Cap("trio")>>,
     overview |-> <<
        <<Cap("john"), Sp, Cap("smith"), Pn(","), Sp, Cap("mary"), Sp,
          Cap("johnson"), Sp, Low("and"), Sp, Cap("peter"), Sp,
          Cap("brown"), Sp, Low("are"), Sp, Low("gone"), Pn(".")>>>>,
     airDate |-> <<<<2022, 3, 1>>>>, seasonNumber |-> 1, episodeNumber |-> 2,
     stillPath |-> <<>>]

\* 102  Who Killed John Smith?  |  The murder of John Smith shocks Austin, Texas.  |  2024-01-01
EpWhoKilled ==
    [id |-> 102, showTmdbId |-> 1, showName |-> "Dateline",
     name |->
        <<Cap("who"), Sp, Cap("killed"), Sp, Cap("john"), Sp, Cap("smith"),
          Pn("?")>>,
     overview |-> <<
        <<Cap("the"), Sp, Low("murder"), Sp, Low("of"), Sp, Cap("john"),
          Sp, Cap("smith"), Sp, Low("shocks"), Sp, Cap("austin"), Pn(","),
          Sp, Cap("texas"), Pn(".")>>>>,
     airDate |-> <<<<2024, 1, 1>>>>, seasonNumber |-> 2, episodeNumber |-> 1,
     stillPath |-> <<>>]

\* 201  Two Friends  |  John Smith and Mary Johnson were last seen in 2020.  |  2023-01-01
EpTwoFriends ==
    [id |-> 201, showTmdbId |-> 2, showName |-> "Snapped",
     name |->
        <<Cap("two"), Sp, Cap("friends")>>,
     overview |-> <<
        <<Cap("john"), Sp, Cap("smith"), Sp, Low("and"), Sp, Cap("mary"),
          Sp, Cap("johnson"), Sp, Low("were"), Sp, Low("last"), Sp,
          Low("seen"), Sp, Low("in"), Sp, Num("2020", 2020), Pn(".")>>>>,
     airDate |-> <<<<2023, 1, 1>>>>, seasonNumber |-> 1, episodeNumber |-> 1,
     stillPath |-> <<>>]

\* 202  The Trio  |  John Smith, Mary Johnson and Peter Brown are gone.  |  (no air date)
EpThreeGone ==
    [id |-> 202, showTmdbId |-> 2, showName |-> "Snapped",
     name |->
        <<Cap("the"), Sp, Cap("trio")>>,
     overview |-> <<
        <<Cap("john"), Sp, Cap("smith"), Pn(","), Sp, Cap("mary"), Sp,
          Cap("johnson"), Sp, Low("and"), Sp, Cap("peter"), Sp,
          Cap("brown"), Sp, Low("are"), Sp, Low("gone"), Pn(".")>>>>,
     airDate |-> <<>>, seasonNumber |-> 1, episodeNumber |-> 2,
     stillPath |-> <<>>]

\* 203  Texas Heat  |  A fire in Austin, Texas in 2020.  |  2024-01-01
EpTexasHeat ==
    [id |-> 203, showTmdbId |-> 2, showName |-> "Snapped",
     name |->
        <<Cap("texas"), Sp, Cap("heat")>>,
     overview |-> <<
        <<Up("a"), Sp, Low("fire"), Sp, Low("in"), Sp, Cap("austin"),
          Pn(","), Sp, Cap("texas"), Sp, Low("in"), Sp, Num("2020", 2020),
          Pn(".")>>>>,
     airDate |-> <<<<2024, 1, 1>>>>, seasonNumber |-> 1, episodeNumber |-> 3,
     stillPath |-> <<>>]

\* 204  Two Friends  |  John Smith and Mary Johnson were last seen in 2020.  |  0000-00-00
EpTwoFriendsTba ==
    [id |-> 204, showTmdbId |-> 2, showName |-> "Snapped",
     name |->
        <<Cap("two"), Sp, Cap("friends")>>,
     overview |-> <<
        <<Cap("john"), Sp, Cap("smith"), Sp, Low("and"), Sp, Cap("mary"),
          Sp, Cap("johnson"), Sp, Low("were"), Sp, Low("last"), Sp,
          Low("seen"), Sp, Low("in"), Sp, Num("2020", 2020), Pn(".")>>>>,
     airDate |-> <<<<0, 0, 0>>>>, seasonNumber |-> 1, episodeNumber |-> 4,
     stillPath |-> <<>>]

\* 301  Family Ties  |  Jane Smith speaks out.  |  1969-07-20
EpSister ==
    [id |-> 301, showTmdbId |-> 3, showName |-> "Forensic Files",
     name |->
        <<Cap("family"), Sp, Cap("ties")>>,
     overview |-> <<
        <<Cap("jane"), Sp, Cap("smith"), Sp, Low("speaks"), Sp, Low("out"),
          Pn(".")>>>>,
     airDate |-> <<<<1969, 7, 20>>>>, seasonNumber |-> 1, episodeNumber |-> 1,
     stillPath |-> <<>>]

\* 302  The Smith Murder Case  |  (no overview)  |  2023-01-01
EpSmithCase ==
    [id |-> 302, showTmdbId |-> 3, showName |-> "Forensic Files",
     name |->
        <<Cap("the"), Sp, Cap("smith"), Sp, Cap("murder"), Sp, Cap("case")>>,
     overview |-> <<>>,
     airDate |-> <<<<2023, 1, 1>>>>, seasonNumber |-> 1, episodeNumber |-> 2,
     stillPath |-> <<>>]

\* 205  Without A Trace  |  In 2020 John Smith, Mary Johnson and Peter Brown left Austin, Texas.  |  2023-01-01
EpWithoutTrace ==
    [id |-> 205, showTmdbId |-> 2, showName |-> "Snapped",
     name |->
        <<Cap("without"), Sp, Up("a"), Sp, Cap("trace")>>,
     overview |-> <<
        <<Cap("in"), Sp, Num("2020", 2020), Sp, Cap("john"), Sp,
          Cap("smith"), Pn(","), Sp, Cap("mary"), Sp, Cap("johnson"), Sp,
          Low("and"), Sp, Cap("peter"), Sp, Cap("brown"), Sp, Low("left"),
          Sp, Cap("austin"), Pn(","), Sp, Cap("texas"), Pn(".")>>>>,
     airDate |-> <<<<2023, 1, 1>>>>, seasonNumber |-> 1, episodeNumber |-> 5,
     stillPath |-> <<>>]

\* 104  Who Killed John Smith?  |  The murder of John Smith shocks the town.  |  2024-02-01
EpWhoKilledTown ==
    [id |-> 104, showTmdbId |-> 1, showName |-> "Dateline",
     name |->
        <<Cap("who"), Sp, Cap("killed"), Sp, Cap("john"), Sp, Cap("smith"),
          Pn("?")>>,
     overview |-> <<
        <<Cap("the"), Sp, Low("murder"), Sp, Low("of"), Sp, Cap("john"),
          Sp, Cap("smith"), Sp, Low("shocks"), Sp, Low("the"), Sp,
          Low("town"), Pn(".")>>>>,
     airDate |-> <<<<2024, 2, 1>>>>, seasonNumber |-> 2, episodeNumber |-> 2,
     stillPath |-> <<>>]

\* 401  Night Shift  |  The suspect fled quickly.  |  2022-06-01
EpSuspectFled ==
    [id |-> 401, showTmdbId |-> 4, showName |-> "Cold Justice",
     name |->
        <<Cap("night"), Sp, Cap("shift")>>,
     overview |-> <<
        <<Cap("the"), Sp, Low("suspect"), Sp, Low("fled"), Sp,
          Low("quickly"), Pn(".")>>>>,
     airDate |-> <<<<2022, 6, 1>>>>, seasonNumber |-> 1, episodeNumber |-> 1,
     stillPath |-> <<>>]

\* 402  Aftermath  |  The victim John  Smith was found.  |  2022-06-08
EpDoubleSpace ==
    [id |-> 402, showTmdbId |-> 4, showName |-> "Cold Justice",
     name |->
        <<Cap("aftermath")>>,
     overview |-> <<
        <<Cap("the"), Sp, Low("victim"), Sp, Cap("john"), Ws("  "),
          Cap("smith"), Sp, Low("was"), Sp, Low("found"), Pn(".")>>>>,
     airDate |-> <<<<2022, 6, 8>>>>, seasonNumber |-> 1, episodeNumber |-> 2,
     stillPath |-> <<>>]

\* 403  Timeline  |  From 1969 to 1970 and 2029 to 2030, then 1970 again; the 1980s, 12020, file_2022 and 2021.  |  2022-06-15
EpTimeline ==
    [id |-> 403, showTmdbId |-> 4, showName |-> "Cold Justice",
     name |->
        <<Cap("timeline")>>,
     overview |-> <<
        <<Cap("from"), Sp, Num("1969", 1969), Sp, Low("to"), Sp,
          Num("1970", 1970), Sp, Low("and"), Sp, Num("2029", 2029), Sp,
          Low("to"), Sp, Num("2030", 2030), Pn(","), Sp, Low("then"), Sp,
          Num("1970", 1970), Sp, Low("again"), Pn(";"), Sp, Low("the"), Sp,
          Num("1980", 1980), Low("s"), Pn(","), Sp, Num("12020", 12020),
          Pn(","), Sp, Low("file"), Pn("_"), Num("2022", 2022), Sp,
          Low("and"), Sp, Num("2021", 2021), Pn(".")>>>>,
     airDate |-> <<<<2022, 6, 15>>>>, seasonNumber |-> 1, episodeNumber |-> 3,
     stillPath |-> <<>>]

\* 303  Cold Case  |  New evidence in the Mary Johnson case from Austin, TX.  |  2023-01-01
EpNewEvidence ==
    [id |-> 303, showTmdbId |-> 3, showName |-> "Forensic Files",
     name |->
        <<Cap("cold"), Sp, Cap("case")>>,
     overview |-> <<
        <<Cap("new"), Sp, Low("evidence"), Sp, Low("in"), Sp, Low("the"),
          Sp, Cap("mary"), Sp, Cap("johnson"), Sp, Low("case"), Sp,
          Low("from"), Sp, Cap("austin"), Pn(","), Sp, Up("tx"), Pn(".")>>>>,
     airDate |-> <<<<2023, 1, 1>>>>, seasonNumber |-> 1, episodeNumber |-> 3,
     stillPath |-> <<>>]

Catalogue ==
    {EpVanished, EpVanishedRerun, EpWhoKilled, EpTwoFriends,
     EpThreeGone, EpTexasHeat, EpTwoFriendsTba, EpSister,
     EpSmithCase, EpWithoutTrace, EpWhoKilledTown, EpSuspectFled,
     EpDoubleSpace, EpTimeline, EpNewEvidence}

\* The episodes candidate pools are drawn from.
Candidates ==
    {EpVanished, EpVanishedRerun, EpWhoKilled, EpTwoFriends,
     EpThreeGone, EpTexasHeat, EpTwoFriendsTba, EpSister}

\* extractKeyTerms(`${e.name} ${e.overview || ''}`) for the episodes of the
\* catalogue: the extractor is a function of the text alone, so each text
\* is extracted once.
CatalogueTerms == [e \in Catalogue |-> extractKeyTerms(EpisodeText(e))]
TermsOf(e) == CatalogueTerms[e]

\* The two extractions, looked up in the table of extracted terms.
ScoreWith(terms, source, target) == ScoreTerms(terms[source], terms[target])

calculateMatchScore(source, target) ==
    IF source.id = target.id THEN [score |-> <<0, 0>>, reason |-> ""]
    ELSE ScoreWith(CatalogueTerms, source, target)

(***************************************************************************)
(* findRelatedEpisodes                                                     *)
(***************************************************************************)
\* new Date(s).getTime() for a date string s = "YYYY-MM-DD", held as its
\* three numbers <<y, m, d>>, in days from 1970-01-01 (the code's
\* milliseconds are 86400000 times as many; the comparator uses only the
\* sign of a difference of two such values).  With the month in 01..12 and
\* the day in 01..31 the string is an ISO date: day d of month m of year y,
\* a day past the end of the month running on into the next month
\* ("2023-02-30" is 2023-03-02).  Any other string is not an ISO date, and
\* the engine reads its three numbers by its own rules: when the first is
\* in 1..31 they are month, day and year, a year of 0..49 meaning 2000..2049
\* and one of 50..99 meaning 1950..1999 ("0001-01-32" is 2032-01-01), and
\* when it is not they are year, month and day; the value is NaN unless the
\* month is in 1..12 and the day in 1..31.  The engine takes the second
\* kind of string in the time zone of the process, here UTC.
GetTime(s) ==
    LET MakeDay(year, month, day) ==
            LET y == IF month <= 2 THEN year - 1 ELSE year
                era == y \div 400
                yoe == y - era * 400
                mp == (month + 9) % 12
                doy == (153 * mp + 2) \div 5 + day - 1
                doe == yoe * 365 + yoe \div 4 - yoe \div 100 + doy
            IN  [nan |-> FALSE, t |-> era * 146097 + doe - 719468]
    IN  IF s[2] \in 1..12 /\ s[3] \in 1..31
        THEN MakeDay(s[1], s[2], s[3])
        ELSE IF s[1] \in 1..31 /\ s[1] \in 1..12 /\ s[2] \in 1..31
        THEN MakeDay(IF s[3] \in 0..49 THEN s[3] + 2000
                     ELSE IF s[3] \in 50..99 THEN s[3] + 1900
                     ELSE s[3],
                     s[1], s[2])
        ELSE [nan |-> TRUE, t |-> 0]

\* a.airDate ? new Date(a.airDate).getTime() : 0
DateOf(r) ==
    IF r.airDate = <<>> THEN [nan |-> FALSE, t |-> 0] ELSE GetTime(r.airDate[1])

\* The comparator handed to results.sort: [nan, sign] of the number it
\* returns.
compareFn(a, b) ==
    IF FLt(Dbl(5), FAbs(FSub(a.score, b.score)))
    THEN [nan |-> FALSE, sign |-> FSign(FSub(b.score, a.score))]
    ELSE LET dateA == DateOf(a)
             dateB == DateOf(b)
         IN  IF dateA.nan \/ dateB.nan THEN [nan |-> TRUE, sign |-> 0]
             ELSE [nan |-> FALSE,
                   sign |-> IF dateB.t < dateA.t THEN -1
                            ELSE IF dateB.t = dateA.t THEN 0 ELSE 1]

\* Array.prototype.sort: the order the engine reads from the comparator;
\* a NaN counts as 0.
SortOrder(a, b) == LET c == compareFn(a, b) IN IF c.nan THEN 0 ELSE c.sign

\* The length of the run that starts the array: the loop from idx on.
RECURSIVE CountRun(_, _, _)
CountRun(xs, idx, isDescending) ==
    IF idx > Len(xs) THEN idx - 1
    ELSE LET order == SortOrder(xs[idx], xs[idx - 1]) IN
         IF (isDescending /\ order >= 0) \/ (~isDescending /\ order < 0)
         THEN idx - 1
         ELSE CountRun(xs, idx + 1, isDescending)

RECURSIVE Reverse(_)
Reverse(xs) == IF xs = <<>> THEN <<>> ELSE Append(Reverse(Tail(xs)), Head(xs))

\* The insertion point of pivot among xs[left..right-1], by bisection.
RECURSIVE InsertionPoint(_, _, _, _)
InsertionPoint(xs, pivot, left, right) ==
    IF left >= right THEN left
    ELSE LET mid == left + (right - left) \div 2 IN
         IF SortOrder(pivot, xs[mid]) < 0
         THEN InsertionPoint(xs, pivot, left, mid)
         ELSE InsertionPoint(xs, pivot, mid + 1, right)

\* Binary insertion sort of xs, whose first start-1 elements are sorted.
RECURSIVE BinaryInsertionSort(_, _)
BinaryInsertionSort(xs, start) ==
    IF start > Len(xs) THEN xs
    ELSE LET left == InsertionPoint(xs, xs[start], 1, start) IN
         BinaryInsertionSort(
            SubSeq(xs, 1, left - 1) \o <<xs[start]>>
               \o SubSeq(xs, left, start - 1)
               \o SubSeq(xs, start + 1, Len(xs)),
            start + 1)

\* results.sort(compareFn) for fewer than 64 results: the leading run is
\* found (and reversed when it descends), the rest is inserted by bisection.
ArraySort(xs) ==
    IF Len(xs) < 2 THEN xs
    ELSE LET isDescending == SortOrder(xs[2], xs[1]) < 0
             runLength == CountRun(xs, 3, isDescending)
             made == IF isDescending
                     THEN Reverse(SubSeq(xs, 1, runLength))
                             \o SubSeq(xs, runLength + 1, Len(xs))
                     ELSE xs
         IN  BinaryInsertionSort(made, runLength + 1)

\* xs.slice(0, end)
Slice(xs, end) ==
    LET k == IF end < 0 THEN Max(Len(xs) + end, 0) ELSE Min(end, Len(xs))
    IN  SubSeq(xs, 1, k)

\* The defaults of the options; an absent option is <<>>.
DefaultMaxResults == 5
DefaultMinScore == 30
OptMaxResults(options) ==
    IF options.maxResults = <<>> THEN DefaultMaxResults ELSE options.maxResults[1]
OptMinScore(options) ==
    Dbl(IF options.minScore = <<>> THEN DefaultMinScore ELSE options.minScore[1])
OptExcludeSameShow(options) ==
    IF options.excludeSameShow = <<>> THEN FALSE ELSE options.excludeSameShow[1]

\* The MatchResult pushed for a candidate.
MatchResult(candidate, scored) ==
    [episodeId |-> candidate.id,
     showTmdbId |-> candidate.showTmdbId,
     showName |-> candidate.showName,
     name |-> candidate.name,
     overview |-> candidate.overview,
     airDate |-> candidate.airDate,
     seasonNumber |-> candidate.seasonNumber,
     episodeNumber |-> candidate.episodeNumber,
     stillPath |-> candidate.stillPath,
     score |-> scored.score,
     matchReason |-> scored.reason]

\* The same-episode test on the whole record rather than on the id.
SkipSameEpisodeByRecord(episode, candidate) == candidate = episode

\* Skip same episode.
SkipSameEpisode(episode, candidate) == candidate.id = episode.id

\* The same-show skip left out.
SkipSameShowNever(episode, candidate, excludeSameShow) == FALSE

\* Optionally skip same show.
SkipSameShow(episode, candidate, excludeSameShow) ==
    excludeSameShow /\ candidate.showTmdbId = episode.showTmdbId

\* The threshold fixed at its default, whatever options.minScore says.
MeetsMinScoreDefault(score, minScore) == FLe(Dbl(DefaultMinScore), score)

\* score >= minScore
MeetsMinScore(score, minScore) == FLe(minScore, score)

\* The objects a call of findRelatedEpisodes works on: its two parameters,
\* which are the caller's own objects, and the array of `const results = []`,
\* which is the call's alone.
CallMemory(episode, allEpisodes) ==
    [episode |-> episode, allEpisodes |-> allEpisodes, results |-> <<>>]

\* The push with the score also stored on the candidate it was computed
\* for (candidate.score = score): the record of the pool is written.
PushMatchAnnotating(memory, i, scored) ==
    LET candidate == memory.allEpisodes[i] IN
    [memory EXCEPT
        !.results = Append(@, MatchResult(candidate, scored)),
        !.allEpisodes[i] =
            [f \in DOMAIN candidate \cup {"score"} |->
                IF f = "score" THEN scored.score ELSE candidate[f]]]

\* results.push({...}) for candidate = allEpisodes[i]: an object literal
\* holding copies of the candidate's fields is appended to results.
PushMatch(memory, i, scored) ==
    [memory EXCEPT
        !.results = Append(@, MatchResult(memory.allEpisodes[i], scored))]

\* if (score >= minScore) results.push({...})
PushIfMeets(memory, i, scored, minScore) ==
    IF MeetsMinScore(scored.score, minScore)
    THEN PushMatch(memory, i, scored)
    ELSE memory

\* The loop over allEpisodes from candidate i on.
RECURSIVE CollectResults(_, _, _, _)
CollectResults(memory, i, minScore, excludeSameShow) ==
    IF i > Len(memory.allEpisodes) THEN memory
    ELSE LET candidate == memory.allEpisodes[i] IN
         IF SkipSameEpisode(memory.episode, candidate)
            \/ SkipSameShow(memory.episode, candidate, excludeSameShow)
         THEN CollectResults(memory, i + 1, minScore, excludeSameShow)
         ELSE CollectResults(
                 PushIfMeets(memory, i,
                             calculateMatchScore(memory.episode, candidate),
                             minScore),
                 i + 1, minScore, excludeSameShow)

\* results.sort((a, b) => ...): the array results is sorted in place.
SortResults(memory) == [memory EXCEPT !.results = ArraySort(@)]

\* The objects of a call as its statements before the return leave them.
MemoryAtReturn(episode, allEpisodes, options) ==
    SortResults(CollectResults(CallMemory(episode, allEpisodes), 1,
                               OptMinScore(options),
                               OptExcludeSameShow(options)))

\* The truncation left out.
TruncateNone(results, maxResults) == results

\* results.slice(0, maxResults)
Truncate(results, maxResults) == Slice(results, maxResults)

\* return results.slice(0, maxResults): a new array of the first entries.
findRelatedEpisodes(episode, allEpisodes, options) ==
    Truncate(MemoryAtReturn(episode, allEpisodes, options).results,
             OptMaxResults(options))

(***************************************************************************)
(* The calls.  The engine keeps no state between calls: a behaviour is one *)
(* call, drawn with its arguments, and its return.                         *)
(***************************************************************************)
\* The longest candidate pool, and the largest maxResults given.
MaxPool == 3
MaxCap == 2

\* The episodes related episodes are searched for.
Sources == {EpVanished, EpTwoFriends}

Pools == UNION {[1..n -> Candidates] : n \in 0..MaxPool}

\* options: each of maxResults, minScore (in hundredths) and
\* excludeSameShow is absent (<<>>) or given; excludeSameShow: false is
\* given with the default maxResults.
OptionSets ==
    [maxResults : {<<>>} \cup {<<n>> : n \in (-1)..MaxCap},
     minScore : {<<>>, <<0>>, <<90>>},
     excludeSameShow : {<<>>, <<TRUE>>}]
    \cup [maxResults : {<<>>},
          minScore : {<<>>, <<0>>, <<90>>},
          excludeSameShow : {<<FALSE>>}]

ScoreCalls ==
    [fn : {"calculateMatchScore"}, source : Catalogue, target : Catalogue]
FindCalls ==
    [fn : {"findRelatedEpisodes"}, episode : Sources, allEpisodes : Pools,
     options : OptionSets]

\* The Karina Cooper case.
TextRejectedPair ==
    <<Cap("the"), Sp, Cap("karina"), Sp, Cap("cooper"), Sp, Low("case"),
      Pn(".")>>
\* Fort Bragg's soldiers searched.
TextPossessivePlace ==
    <<Cap("fort"), Sp, Cap("bragg"), Pn("'"), Low("s"), Sp,
      Low("soldiers"), Sp, Low("searched"), Pn(".")>>
\* Holly Holly's husband vanished.  (the title "Holly", then the overview)
TextPossessiveRepeat ==
    <<Cap("holly"), Sp, Cap("holly"), Pn("'"), Low("s"), Sp,
      Low("husband"), Sp, Low("vanished"), Pn(".")>>
\* Nurse Fort Bragg testified.
TextCuePlace ==
    <<Cap("nurse"), Sp, Cap("fort"), Sp, Cap("bragg"), Sp,
      Low("testified"), Pn(".")>>
\* a codefendant fled quickly.
TextCueInsideWord ==
    <<Low("a"), Sp, Low("codefendant"), Sp, Low("fled"), Sp, Low("quickly"),
      Pn(".")>>
NameRuleTexts ==
    {TextRejectedPair, TextPossessivePlace, TextPossessiveRepeat,
     TextCuePlace, TextCueInsideWord}

\* The texts extractKeyTerms is called on: those of the catalogue, and
\* five more for the rules of extractNames.
Texts == {EpisodeText(e) : e \in Catalogue} \cup NameRuleTexts
ExtractCalls == [fn : {"extractKeyTerms"}, text : Texts]

\* extractKeyTerms(text) for those texts, each extracted once.
TextTerms == [text \in Texts |-> extractKeyTerms(text)]

(***************************************************************************)
(* The decision store and the viewed store (decisions.ts, viewed.ts), in   *)
(* the browser: window is defined and localStorage holds what the two      *)
(* modules wrote.  Each function parses the stored JSON, works on the      *)
(* parsed Map and writes it back, in one synchronous step.  The timestamp  *)
(* and viewedAt fields are written and never read; they are left out.      *)
(***************************************************************************)
VARIABLES
    decisions,  \* localStorage['crimeweb_match_decisions']: key -> record
    viewed,     \* localStorage['crimeweb_viewed_episodes']: its keys
    last        \* the last call on the stores, with what it returned

\* The episode ids the stores are called with, the two decisions, and the
\* most records the decision store holds.
EpisodeIds == {101, 102, 201, 202}
MatchDecisions == {"confirmed", "denied"}
MaxDecisions == 3

\* The key without the sort: the two ids in the order given.
getMatchKeyAsGiven(episodeId1, episodeId2) == <<episodeId1, episodeId2>>

\* `${sorted[0]}_${sorted[1]}` with sorted = [id1, id2].sort((a, b) => a - b):
\* the key "lo_hi" is held as <<lo, hi>>.
getMatchKey(episodeId1, episodeId2) ==
    IF episodeId1 <= episodeId2 THEN <<episodeId1, episodeId2>>
    ELSE <<episodeId2, episodeId1>>

\* getAllDecisions(): the parsed Map; no stored item gives the empty Map.
getAllDecisions == decisions
NoDecisions == [k \in {} |-> 0]

\* record?.decision ?? null, null being <<>>.
getDecision(sourceEpisodeId, matchedEpisodeId) ==
    LET key == getMatchKey(sourceEpisodeId, matchedEpisodeId) IN
    IF key \in DOMAIN getAllDecisions
    THEN <<getAllDecisions[key].decision>>
    ELSE <<>>

\* Only the records whose sourceEpisodeId is episodeId are looked at.
MatchIdsWithSourceOnly(episodeId, d) ==
    {getAllDecisions[k].matchedEpisodeId :
        k \in {j \in DOMAIN getAllDecisions :
                 /\ getAllDecisions[j].decision = d
                 /\ getAllDecisions[j].sourceEpisodeId = episodeId}}

\* The ids paired with episodeId by a record whose decision is d.
MatchIdsWith(episodeId, d) ==
    {IF getAllDecisions[k].sourceEpisodeId = episodeId
     THEN getAllDecisions[k].matchedEpisodeId
     ELSE getAllDecisions[k].sourceEpisodeId :
        k \in {j \in DOMAIN getAllDecisions :
                 /\ getAllDecisions[j].decision = d
                 /\ \/ getAllDecisions[j].sourceEpisodeId = episodeId
                    \/ getAllDecisions[j].matchedEpisodeId = episodeId}}
getDeniedMatchIds(sourceEpisodeId) == MatchIdsWith(sourceEpisodeId, "denied")
getConfirmedMatchIds(episodeId) == MatchIdsWith(episodeId, "confirmed")

\* getAllViewed(): the keys of the parsed Map.
getAllViewed == viewed

\* Only the episode's own flag is looked at.
isViewedDirectly(episodeId) == episodeId \in getAllViewed

\* Viewed directly or via a confirmed relation.
isViewed(episodeId) ==
    \/ episodeId \in getAllViewed
    \/ \E confirmedId \in getConfirmedMatchIds(episodeId) :
          confirmedId \in getAllViewed

\* Marking the episode alone, its confirmed related episodes left out.
ViewedAfterMarkSelfOnly(episodeId) == getAllViewed \cup {episodeId}

\* The Map markAsViewed writes back.
ViewedAfterMark(episodeId) ==
    getAllViewed \cup {episodeId} \cup getConfirmedMatchIds(episodeId)

\* Unmarking the episode alone, its confirmed related episodes left marked.
ViewedAfterUnmarkSelfOnly(episodeId) == getAllViewed \ {episodeId}

\* The Map markAsUnviewed writes back.
ViewedAfterUnmark(episodeId) ==
    (getAllViewed \ {episodeId}) \ getConfirmedMatchIds(episodeId)

VARIABLES
    call,   \* the call and its arguments
    pc,     \* "call" before the function has run, "return" after
    ret     \* <<>> before, <<the value returned>> after

(***************************************************************************)
(* One TMDbClient and the callers of its fetch.  The code between two      *)
(* awaits of one call runs without interruption.                           *)
(***************************************************************************)
VARIABLES
    requestCount,   \* this.requestCount
    windowStart,    \* this.windowStart, in ms since the client was made
    now,            \* Date.now(), in ms since the client was made
    awaiting,       \* the number of calls stopped at `await this.queue`
    sleeping,       \* the calls in this.sleep: wake-up time -> how many
    issued          \* the requests of the last RATE_LIMIT_WINDOW ms:
                    \* time of issue -> how many

clientVars == <<requestCount, windowStart, now, awaiting, sleeping, issued>>

(***************************************************************************)
(* The EpisodeProvider component (lib/episodes/viewed.ts).  setState with  *)
(* an updater applies it to the latest state; the callbacks of a render    *)
(* see the state of that render until the component renders again.         *)
(* activeShowIndex and scrollPosition are not touched by initialize and    *)
(* loadMore; they are left out.                                            *)
(***************************************************************************)
VARIABLES
    state,      \* the state of useState, every queued updater applied
    rendered,   \* the state of the last render: what loadMore closes over
    requests,   \* the getMoreEpisodes requests in flight, oldest first
    loaderShows \* the shows of the route loader the home page renders with

providerVars == <<state, rendered, requests, loaderShows>>

VARIABLES
    pool,   \* episodeDatabase.episodes: the array the server's handlers pass
    given   \* the pool as it was loaded

sharedVars == <<pool, given>>

vars ==
    <<call, pc, ret, decisions, viewed, last, clientVars, providerVars,
      sharedVars>>

\* No episode database is loaded.
SharedInit ==
    /\ pool = <<>>
    /\ given = <<>>

\* A Record<number, T> with no key.
NoKeys == [k \in {} |-> 0]

\* The argument of useState.
InitialState ==
    [initialShows |-> <<>>, showEpisodes |-> NoKeys, hasMore |-> NoKeys,
     loadingMore |-> NoKeys, initialized |-> FALSE]

\* The provider as mounted.
ProviderInit ==
    /\ state = InitialState
    /\ rendered = InitialState
    /\ requests = <<>>
    /\ loaderShows = <<>>

RATE_LIMIT_REQUESTS == 40
RATE_LIMIT_WINDOW == 10000

\* No entry, one more entry x, one entry x fewer: time -> how many.
NoTimes == [t \in {} |-> 0]
OneMore(b, x) ==
    IF x \in DOMAIN b THEN [b EXCEPT ![x] = @ + 1] ELSE b @@ (x :> 1)
OneFewer(b, x) ==
    IF b[x] > 1 THEN [b EXCEPT ![x] = @ - 1]
    ELSE [t \in DOMAIN b \ {x} |-> b[t]]
RECURSIVE SumOver(_, _)
SumOver(b, times) ==
    IF times = {} THEN 0
    ELSE LET t == CHOOSE u \in times : TRUE IN b[t] + SumOver(b, times \ {t})
HowMany(b) == SumOver(b, DOMAIN b)

\* The client as constructed: requestCount = 0, windowStart = Date.now(),
\* queue = Promise.resolve(), and no call made.
ClientInit ==
    /\ requestCount = 0
    /\ windowStart = 0
    /\ now = 0
    /\ awaiting = 0
    /\ sleeping = NoTimes
    /\ issued = NoTimes

\* No call on the stores has been made.
NoStoreCall == [op |-> "none", a |-> 0, b |-> 0, d |-> <<>>, ret |-> <<>>]

Init ==
    /\ call \in ScoreCalls \cup FindCalls \cup ExtractCalls
    /\ pc = "call"
    /\ ret = <<>>
    /\ decisions = NoDecisions
    /\ viewed = {}
    /\ last = NoStoreCall
    /\ ClientInit
    /\ ProviderInit
    /\ SharedInit

CalculateMatchScore ==
    /\ pc = "call"
    /\ call.fn = "calculateMatchScore"
    /\ ret' = <<calculateMatchScore(call.source, call.target)>>
    /\ pc' = "return"
    /\ UNCHANGED <<call, decisions, viewed, last, clientVars, providerVars, sharedVars>>

FindRelatedEpisodes ==
    /\ pc = "call"
    /\ call.fn = "findRelatedEpisodes"
    /\ ret' = <<findRelatedEpisodes(call.episode, call.allEpisodes, call.options)>>
    /\ pc' = "return"
    /\ UNCHANGED <<call, decisions, viewed, last, clientVars, providerVars, sharedVars>>

ExtractKeyTerms ==
    /\ pc = "call"
    /\ call.fn = "extractKeyTerms"
    /\ ret' = <<TextTerms[call.text]>>
    /\ pc' = "return"
    /\ UNCHANGED <<call, decisions, viewed, last, clientVars, providerVars, sharedVars>>

Next == CalculateMatchScore \/ FindRelatedEpisodes \/ ExtractKeyTerms

Spec == Init /\ [][Next]_vars

(***************************************************************************)
(* The callers of the server.  server.ts holds one episode array,          *)
(* episodeDatabase.episodes, and its three handlers each pass that array   *)
(* to findRelatedEpisodes with a source episode they have built and an     *)
(* options literal of their own.  The matcher has no await, so a call runs *)
(* from entry to return before the call of another handler starts: the     *)
(* calls of the handlers are steps taken in any order, each on the array   *)
(* as the calls before it have left it.                                    *)
(***************************************************************************)
Callers == {"getLatestEpisodes", "getMoreEpisodes", "getRelatedEpisodes"}

\* The options literal of each handler.
CallerOptions(caller) ==
    [maxResults |-> IF caller = "getRelatedEpisodes" THEN <<5>> ELSE <<10>>,
     minScore |-> <<25>>,
     excludeSameShow |-> <<FALSE>>]

\* The most calls one handler makes.
MaxCallsEach == 1

\* The episodes of the loaded databases, each held once.
SharedCandidates ==
    {EpVanished, EpWhoKilled, EpTwoFriends, EpThreeGone, EpTexasHeat}
SharedPools ==
    {p \in Pools :
        /\ \A i \in DOMAIN p : p[i] \in SharedCandidates
        /\ \A i \in DOMAIN p : \A j \in DOMAIN p : p[i] = p[j] => i = j}

\* No handler has called.
NoneMade == [caller \in Callers |-> 0]

SharedStart ==
    /\ given \in SharedPools
    /\ pool = given
    /\ call = [fn |-> "none", made |-> NoneMade]
    /\ pc = "idle"
    /\ ret = <<>>
    /\ decisions = NoDecisions
    /\ viewed = {}
    /\ last = NoStoreCall
    /\ ClientInit
    /\ ProviderInit

\* Handler `caller` calls findRelatedEpisodes(source, pool, options): the
\* call works on the pool as it stands, and what its statements have made
\* of the source and of the pool is what the handlers hold afterwards.
CallerFinds(caller, source) ==
    /\ call.made[caller] < MaxCallsEach
    /\ LET options == CallerOptions(caller)
           memory == MemoryAtReturn(source, pool, options)
       IN  /\ pool' = memory.allEpisodes
           /\ ret' = <<Truncate(memory.results, OptMaxResults(options))>>
           /\ call' = [fn |-> "findRelatedEpisodes", caller |-> caller,
                       source |-> source, episode |-> memory.episode,
                       options |-> options,
                       made |-> [call.made EXCEPT ![caller] = @ + 1]]
    /\ pc' = "return"
    /\ UNCHANGED <<given, decisions, viewed, last, clientVars, providerVars>>

\* A direct call calculateMatchScore(source, pool[i]).  The function reads
\* name and overview of its two parameters into template strings and has no
\* assignment other than to its own locals.
CallerScores(caller, source, i) ==
    /\ call.made[caller] < MaxCallsEach
    /\ i \in 1..Len(pool)
    /\ ret' = <<calculateMatchScore(source, pool[i])>>
    /\ call' = [fn |-> "calculateMatchScore", caller |-> caller,
                source |-> source, episode |-> source, target |-> i,
                made |-> [call.made EXCEPT ![caller] = @ + 1]]
    /\ pc' = "return"
    /\ UNCHANGED <<pool, given, decisions, viewed, last, clientVars,
                   providerVars>>

SharedNext ==
    \E caller \in Callers : \E source \in Sources :
        \/ CallerFinds(caller, source)
        \/ \E i \in 1..MaxPool : CallerScores(caller, source, i)

SharedSpec == SharedStart /\ [][SharedNext]_vars

(***************************************************************************)
(* The calls on the stores.  The matcher is not called here.               *)
(***************************************************************************)
StoreInit ==
    /\ call = [fn |-> "none"]
    /\ pc = "idle"
    /\ ret = <<>>
    /\ decisions = NoDecisions
    /\ viewed = {}
    /\ last = NoStoreCall
    /\ ClientInit
    /\ ProviderInit
    /\ SharedInit

SaveDecision(sourceEpisodeId, matchedEpisodeId, decision) ==
    LET key == getMatchKey(sourceEpisodeId, matchedEpisodeId)
        record == [sourceEpisodeId |-> sourceEpisodeId,
                   matchedEpisodeId |-> matchedEpisodeId,
                   decision |-> decision]
    IN  /\ \/ key \in DOMAIN decisions
           \/ Cardinality(DOMAIN decisions) < MaxDecisions
        /\ decisions' = [k \in DOMAIN decisions \cup {key} |->
                            IF k = key THEN record ELSE decisions[k]]
        /\ last' = [op |-> "saveDecision", a |-> sourceEpisodeId,
                    b |-> matchedEpisodeId, d |-> <<decision>>, ret |-> <<>>]
        /\ UNCHANGED <<viewed, call, pc, ret, clientVars, providerVars, sharedVars>>

RemoveDecision(sourceEpisodeId, matchedEpisodeId) ==
    LET key == getMatchKey(sourceEpisodeId, matchedEpisodeId) IN
    /\ decisions' = [k \in DOMAIN decisions \ {key} |-> decisions[k]]
    /\ last' = [op |-> "removeDecision", a |-> sourceEpisodeId,
                b |-> matchedEpisodeId, d |-> <<>>, ret |-> <<>>]
    /\ UNCHANGED <<viewed, call, pc, ret, clientVars, providerVars, sharedVars>>

MarkAsViewed(episodeId) ==
    /\ viewed' = ViewedAfterMark(episodeId)
    /\ last' = [op |-> "markAsViewed", a |-> episodeId, b |-> 0,
                d |-> <<>>, ret |-> <<>>]
    /\ UNCHANGED <<decisions, call, pc, ret, clientVars, providerVars, sharedVars>>

MarkAsUnviewed(episodeId) ==
    /\ viewed' = ViewedAfterUnmark(episodeId)
    /\ last' = [op |-> "markAsUnviewed", a |-> episodeId, b |-> 0,
                d |-> <<>>, ret |-> <<>>]
    /\ UNCHANGED <<decisions, call, pc, ret, clientVars, providerVars, sharedVars>>

\* markAsUnviewed and false when the episode's own flag is set, else
\* markAsViewed and true.
ToggleViewed(episodeId) ==
    /\ viewed' = IF isViewedDirectly(episodeId)
                 THEN ViewedAfterUnmark(episodeId)
                 ELSE ViewedAfterMark(episodeId)
    /\ last' = [op |-> "toggleViewed", a |-> episodeId, b |-> 0,
                d |-> <<>>, ret |-> <<~isViewedDirectly(episodeId)>>]
    /\ UNCHANGED <<decisions, call, pc, ret, clientVars, providerVars, sharedVars>>

\* The source and the matched episode of a decision are two episodes.
StoreNext ==
    \/ \E a \in EpisodeIds : \E b \in EpisodeIds \ {a} : \E d \in MatchDecisions :
          SaveDecision(a, b, d)
    \/ \E a \in EpisodeIds : \E b \in EpisodeIds \ {a} : RemoveDecision(a, b)
    \/ \E e \in EpisodeIds : MarkAsViewed(e)
    \/ \E e \in EpisodeIds : MarkAsUnviewed(e)
    \/ \E e \in EpisodeIds : ToggleViewed(e)

StoreSpec == StoreInit /\ [][StoreNext]_vars

(***************************************************************************)
(* findMatchingCases (lib/matching/fuzzy.ts).  A string is the sequence of *)
(* its characters.  compareTwoStrings is the Dice coefficient of the       *)
(* string-similarity package, 2k / n for integers k and n: the quotient is *)
(* held as <<2k, n>> and two quotients are compared by their cross         *)
(* products.  Division rounds to the nearest double and the quotients of   *)
(* two strings under 50 characters are further apart than two neighbouring *)
(* doubles, so the doubles compare, and subtract to a sign, as the         *)
(* quotients do.                                                           *)
(***************************************************************************)
\* toLowerCase on one character of the alphabet the strings are written in:
\* six capitals, lower-case letters and the blank.
LowerChar(c) ==
    CASE c = "A" -> "a" [] c = "C" -> "c" [] c = "J" -> "j"
      [] c = "L" -> "l" [] c = "S" -> "s" [] c = "T" -> "t"
      [] OTHER -> c
toLowerCase(s) == [i \in 1..Len(s) |-> LowerChar(s[i])]

\* s.replace(/\s+/g, '')
RemoveWhitespace(s) == SelectSeq(s, LAMBDA c : c # " ")
\* The bigrams s.substring(i, i + 2) of s, in order.
Bigrams(s) == [i \in 1..(Len(s) - 1) |-> <<s[i], s[i + 1]>>]

\* firstBigrams.set(bigram, count - 1): one occurrence of x leaves xs.
RECURSIVE RemoveOne(_, _)
RemoveOne(xs, x) ==
    IF xs = <<>> THEN <<>>
    ELSE IF Head(xs) = x THEN Tail(xs)
    ELSE <<Head(xs)>> \o RemoveOne(Tail(xs), x)

\* The loop over the bigrams of the second string: each one still counted
\* among the first string's bigrams takes one of them and adds one.
RECURSIVE IntersectionSize(_, _, _)
IntersectionSize(firstBigrams, secondBigrams, i) ==
    IF i > Len(secondBigrams) THEN 0
    ELSE IF SeqHas(firstBigrams, secondBigrams[i])
    THEN 1 + IntersectionSize(RemoveOne(firstBigrams, secondBigrams[i]),
                              secondBigrams, i + 1)
    ELSE IntersectionSize(firstBigrams, secondBigrams, i + 1)

compareTwoStrings(first, second) ==
    IF RemoveWhitespace(first) = RemoveWhitespace(second) THEN <<1, 1>>
    ELSE IF Len(RemoveWhitespace(first)) < 2 \/ Len(RemoveWhitespace(second)) < 2
    THEN <<0, 1>>
    ELSE <<2 * IntersectionSize(Bigrams(RemoveWhitespace(first)),
                                Bigrams(RemoveWhitespace(second)), 1),
           Len(RemoveWhitespace(first)) + Len(RemoveWhitespace(second)) - 2>>

\* a <= b for two quotients.
QLe(a, b) == a[1] * b[2] <= b[1] * a[2]

\* threshold = 0.6
DefaultThreshold == <<3, 5>>

\* The loop over one field's names: the entry of the first name that
\* reaches the threshold, then break; no entry when none does.
RECURSIVE FieldEntry(_, _, _, _, _, _)
FieldEntry(searchLower, caseItem, names, field, threshold, i) ==
    IF i > Len(names) THEN <<>>
    ELSE IF QLe(threshold, compareTwoStrings(searchLower, toLowerCase(names[i])))
    THEN <<[item |-> caseItem,
            score |-> compareTwoStrings(searchLower, toLowerCase(names[i])),
            matchedOn |-> field]>>
    ELSE FieldEntry(searchLower, caseItem, names, field, threshold, i + 1)

\* caseItem.victim_names || []
OrEmpty(names) == IF names = <<>> THEN <<>> ELSE names[1]

\* The body of the loop over the cases: what it pushes for caseItem.
CaseEntries(searchLower, caseItem, threshold) ==
    IF QLe(threshold, compareTwoStrings(searchLower, toLowerCase(caseItem.name)))
    THEN <<[item |-> caseItem,
            score |-> compareTwoStrings(searchLower, toLowerCase(caseItem.name)),
            matchedOn |-> "name"]>>
    ELSE FieldEntry(searchLower, caseItem, OrEmpty(caseItem.victim_names),
                    "victim", threshold, 1)
         \o FieldEntry(searchLower, caseItem,
                       OrEmpty(caseItem.perpetrator_names),
                       "perpetrator", threshold, 1)

RECURSIVE CollectCases(_, _, _, _)
CollectCases(searchLower, cases, threshold, i) ==
    IF i > Len(cases) THEN <<>>
    ELSE CaseEntries(searchLower, cases[i], threshold)
         \o CollectCases(searchLower, cases, threshold, i + 1)

\* results.sort((a, b) => b.score - a.score).  The comparator orders the
\* entries by score alone and the sort is stable: r goes behind every
\* entry of a score no lower than its own.
RECURSIVE InsertByScore(_, _)
InsertByScore(sorted, r) ==
    IF sorted = <<>> THEN <<r>>
    ELSE IF QLe(r.score, Head(sorted).score)
    THEN <<Head(sorted)>> \o InsertByScore(Tail(sorted), r)
    ELSE <<r>> \o sorted

RECURSIVE SortByScore(_, _, _)
SortByScore(results, i, sorted) ==
    IF i > Len(results) THEN sorted
    ELSE SortByScore(results, i + 1, InsertByScore(sorted, results[i]))

\* The index of the last entry of arr with that case id.
FindLastIndexOfId(arr, id) ==
    CHOOSE i \in 1..Len(arr) :
        /\ arr[i].item.id = id
        /\ \A j \in (i + 1)..Len(arr) : arr[j].item.id # id

\* arr.findIndex((r) => r.item.id === id), for an id that arr holds.
FindIndexOfId(arr, id) ==
    CHOOSE i \in 1..Len(arr) :
        /\ arr[i].item.id = id
        /\ \A j \in 1..(i - 1) : arr[j].item.id # id

\* .filter((result, index, arr) => arr.findIndex(...) === index)
RECURSIVE FilterFirstOfId(_, _)
FilterFirstOfId(arr, index) ==
    IF index > Len(arr) THEN <<>>
    ELSE (IF FindIndexOfId(arr, arr[index].item.id) = index
          THEN <<arr[index]>> ELSE <<>>)
         \o FilterFirstOfId(arr, index + 1)

findMatchingCases(searchText, cases, threshold) ==
    FilterFirstOfId(
        SortByScore(CollectCases(toLowerCase(searchText), cases, threshold, 1),
                    1, <<>>),
        1)

\* 1  Smith Case  |  victims null  |  perpetrators null
CaseSmith ==
    [id |-> 1,
     name |-> <<"S", "m", "i", "t", "h", " ", "C", "a", "s", "e">>,
     victim_names |-> <<>>,
     perpetrator_names |-> <<>>]
\* 2  Lake  |  victims Al Smith  |  perpetrators Jo Smith
CaseLake ==
    [id |-> 2,
     name |-> <<"L", "a", "k", "e">>,
     victim_names |-> <<<<<<"A", "l", " ", "S", "m", "i", "t", "h">>>>>>,
     perpetrator_names |-> <<<<<<"J", "o", " ", "S", "m", "i", "t", "h">>>>>>]
\* 3  Trial  |  victims Jon Smith, Jo Smith  |  no perpetrators
CaseTrial ==
    [id |-> 3,
     name |-> <<"T", "r", "i", "a", "l">>,
     victim_names |-> <<<<<<"J", "o", "n", " ", "S", "m", "i", "t", "h">>,
                         <<"J", "o", " ", "S", "m", "i", "t", "h">>>>>>,
     perpetrator_names |-> <<<<>>>>]
\* 4  Jo Lee  |  no victims  |  perpetrators Smith
CaseLee ==
    [id |-> 4,
     name |-> <<"J", "o", " ", "L", "e", "e">>,
     victim_names |-> <<<<>>>>,
     perpetrator_names |-> <<<<<<"S", "m", "i", "t", "h">>>>>>]
SearchJoSmith == <<"J", "o", " ", "S", "m", "i", "t", "h">>
SearchSmith == <<"S", "m", "i", "t", "h">>
SearchJoLee == <<"J", "o", " ", "L", "e", "e">>

\* The calls: a search text, up to MaxCases cases in any order, one case
\* possibly listed more than once, and the threshold left out or 0.3.
MaxCases == 3
SearchTexts == {SearchJoSmith, SearchSmith, SearchJoLee}
Cases == {CaseSmith, CaseLake, CaseTrial, CaseLee}
CaseLists == UNION {[1..n -> Cases] : n \in 0..MaxCases}
FuzzyCalls ==
    [fn : {"findMatchingCases"}, searchText : SearchTexts, cases : CaseLists,
     threshold : {<<>>, <<<<3, 10>>>>}]

FuzzyInit ==
    /\ call \in FuzzyCalls
    /\ pc = "call"
    /\ ret = <<>>
    /\ decisions = NoDecisions
    /\ viewed = {}
    /\ last = NoStoreCall
    /\ ClientInit
    /\ ProviderInit
    /\ SharedInit

FindMatchingCases ==
    /\ pc = "call"
    /\ call.fn = "findMatchingCases"
    /\ pc' = "return"
    /\ ret' = <<findMatchingCases(
                  call.searchText, call.cases,
                  IF call.threshold = <<>> THEN DefaultThreshold
                  ELSE call.threshold[1])>>
    /\ UNCHANGED <<call, decisions, viewed, last, clientVars, providerVars, sharedVars>>

FuzzyNext == FindMatchingCases

FuzzySpec == FuzzyInit /\ [][FuzzyNext]_vars

(***************************************************************************)
(* TMDbClient.fetch.  this.queue is set once, to Promise.resolve(), and    *)
(* never assigned again: `await this.queue` gives way to the calls already *)
(* made and then goes on.  The steps of the clock and the most calls made  *)
(* are bounds of the model; a timer fires at its time or later.            *)
(***************************************************************************)
TickMs == 5000
MaxTime == 15000
MaxCalls == 42

\* fetch is called: it runs up to `await this.queue`.
Fetch ==
    /\ awaiting + HowMany(sleeping) + HowMany(issued) < MaxCalls
    /\ awaiting' = awaiting + 1
    /\ UNCHANGED <<requestCount, windowStart, now, sleeping, issued>>
    /\ UNCHANGED <<call, pc, ret, decisions, viewed, last, providerVars, sharedVars>>

\* requestCount and windowStart after the first check of the window.
CountAfterCheck ==
    IF now - windowStart >= RATE_LIMIT_WINDOW THEN 0 ELSE requestCount
StartAfterCheck ==
    IF now - windowStart >= RATE_LIMIT_WINDOW THEN now ELSE windowStart

\* A call goes on after `await this.queue`: the window is checked, and the
\* call issues its request or, at the limit, starts to sleep.
Resume ==
    /\ awaiting > 0
    /\ awaiting' = awaiting - 1
    /\ windowStart' = StartAfterCheck
    /\ IF CountAfterCheck >= RATE_LIMIT_REQUESTS
       THEN /\ sleeping' = OneMore(sleeping,
                              now + (RATE_LIMIT_WINDOW - (now - StartAfterCheck)))
            /\ requestCount' = CountAfterCheck
            /\ issued' = issued
       ELSE /\ requestCount' = CountAfterCheck + 1
            /\ issued' = OneMore(issued, now)
            /\ sleeping' = sleeping
    /\ now' = now
    /\ UNCHANGED <<call, pc, ret, decisions, viewed, last, providerVars, sharedVars>>

\* The timer of a sleeping call fires: the count is reset, the window
\* starts again, and the call issues its request.
Wake ==
    /\ \E w \in DOMAIN sleeping :
          /\ w <= now
          /\ sleeping' = OneFewer(sleeping, w)
    /\ requestCount' = 0 + 1
    /\ windowStart' = now
    /\ issued' = OneMore(issued, now)
    /\ UNCHANGED <<now, awaiting>>
    /\ UNCHANGED <<call, pc, ret, decisions, viewed, last, providerVars, sharedVars>>

\* Time passes, once the calls that were made have run to their next
\* await; the requests issued RATE_LIMIT_WINDOW ms ago or earlier are
\* forgotten.
Advance ==
    /\ awaiting = 0
    /\ now + TickMs <= MaxTime
    /\ now' = now + TickMs
    /\ issued' = [t \in {u \in DOMAIN issued : u > now' - RATE_LIMIT_WINDOW}
                    |-> issued[t]]
    /\ UNCHANGED <<requestCount, windowStart, awaiting, sleeping>>
    /\ UNCHANGED <<call, pc, ret, decisions, viewed, last, providerVars, sharedVars>>

ClientStart ==
    /\ call = [fn |-> "none"]
    /\ pc = "idle"
    /\ ret = <<>>
    /\ decisions = NoDecisions
    /\ viewed = {}
    /\ last = NoStoreCall
    /\ ClientInit
    /\ ProviderInit
    /\ SharedInit

ClientNext == Fetch \/ Resume \/ Wake \/ Advance

ClientSpec == ClientStart /\ [][ClientNext]_vars

(***************************************************************************)
(* EpisodeProvider.initialize and EpisodeProvider.loadMore.  The server    *)
(* holds the episodes of two shows, newest first; an episode is its id.    *)
(***************************************************************************)
ShowIds == {1, 2}

\* TMDb as the server functions read it.  An episode is its id and its
\* air_date (<<>> for null); the other fields play no part.  A season's
\* episodes stand in episode order, oldest first.
TmdbEpisode(id, y, m, d) == [id |-> id, air_date |-> <<<<y, m, d>>>>]
\* showDetails.seasons of each show: the season numbers as listed.
ShowSeasons == (1 :> <<0, 1, 2, 3>>) @@ (2 :> <<1>>)
\* seasonDetails.episodes of each season.  Show 1: a special, then seasons
\* of 5, 10 and 10 aired episodes, episode 21 of season 1 aired late (after
\* episode 6 of season 3), episode 30 of season 3 not aired yet.  Show 2:
\* one season of 4.
SeasonEpisodes ==
    (1 :> (0 :> <<TmdbEpisode(90, 2021, 1, 1)>>
           @@ 1 :> <<TmdbEpisode(25, 2022, 1, 1), TmdbEpisode(24, 2022, 2, 1),
                     TmdbEpisode(23, 2022, 3, 1), TmdbEpisode(22, 2022, 4, 1),
                     TmdbEpisode(21, 2024, 5, 15)>>
           @@ 2 :> [i \in 1..10 |-> TmdbEpisode(21 - i, 2023, i, 1)]
           @@ 3 :> [i \in 1..10 |-> TmdbEpisode(11 - i, 2024, i, 1)]
                   \o <<[id |-> 30, air_date |-> <<>>]>>))
    @@ (2 :> (1 :> [i \in 1..4 |-> TmdbEpisode(105 - i, 2024, i, 1)]))

\* limit: 10
PageLimit == 10
\* loadMore is called for a show while its list is shorter than MaxLoaded
\* (while it holds the first page or less); the most requests in flight;
\* the most season requests that fail within one request.
MaxLoaded == 11
MaxInFlight == 2
MaxFailed == 1

\* allEpisodes.slice(from, to)
SliceFrom(xs, from, to) ==
    SubSeq(xs, from + 1, IF to < Len(xs) THEN to ELSE Len(xs))

\* .filter((s) => s.season_number > 0)
IsRegularSeason(n) == n > 0
\* .sort((a, b) => b - a) on season numbers: the i-th is the one with
\* i - 1 greater ones (the numbers of a show differ).
SortDescending(nums) ==
    [i \in 1..Len(nums) |->
        CHOOSE n \in {nums[j] : j \in 1..Len(nums)} :
            Cardinality({j \in 1..Len(nums) : nums[j] > n}) = i - 1]
seasonNumbers(showId) ==
    SortDescending(SelectSeq(ShowSeasons[showId], IsRegularSeason))

\* .filter((ep) => ep.air_date)
HasAirDate(ep) == ep.air_date # <<>>
\* new Date(ep.air_date || 0).getTime()
AirTime(ep) ==
    IF ep.air_date = <<>> THEN [nan |-> FALSE, t |-> 0]
    ELSE GetTime(ep.air_date[1])
\* The order Array.prototype.sort reads from the comparator
\* (a, b) => dateB - dateA: its sign, a NaN counting as 0.
AirOrder(a, b) ==
    IF AirTime(a).nan \/ AirTime(b).nan THEN 0
    ELSE IF AirTime(b).t < AirTime(a).t THEN -1
    ELSE IF AirTime(b).t = AirTime(a).t THEN 0 ELSE 1

\* Array.prototype.sort with that comparator, for fewer than 64 episodes
\* (the engine's steps are those of results.sort in findRelatedEpisodes).
\* The length of the run that starts the array: the loop from idx on.
RECURSIVE CountRunByAir(_, _, _)
CountRunByAir(xs, idx, isDescending) ==
    IF idx > Len(xs) THEN idx - 1
    ELSE LET order == AirOrder(xs[idx], xs[idx - 1]) IN
         IF (isDescending /\ order >= 0) \/ (~isDescending /\ order < 0)
         THEN idx - 1
         ELSE CountRunByAir(xs, idx + 1, isDescending)

\* The insertion point of pivot among xs[left..right-1], by bisection.
RECURSIVE InsertionPointByAir(_, _, _, _)
InsertionPointByAir(xs, pivot, left, right) ==
    IF left >= right THEN left
    ELSE LET mid == left + (right - left) \div 2 IN
         IF AirOrder(pivot, xs[mid]) < 0
         THEN InsertionPointByAir(xs, pivot, left, mid)
         ELSE InsertionPointByAir(xs, pivot, mid + 1, right)

\* Binary insertion sort of xs, whose first start-1 elements are sorted.
RECURSIVE BinaryInsertionSortByAir(_, _)
BinaryInsertionSortByAir(xs, start) ==
    IF start > Len(xs) THEN xs
    ELSE LET left == InsertionPointByAir(xs, xs[start], 1, start) IN
         BinaryInsertionSortByAir(
            SubSeq(xs, 1, left - 1) \o <<xs[start]>>
               \o SubSeq(xs, left, start - 1)
               \o SubSeq(xs, start + 1, Len(xs)),
            start + 1)

\* The leading run is found (and reversed when it descends), the rest is
\* inserted by bisection.
SortNewestFirst(xs) ==
    IF Len(xs) < 2 THEN xs
    ELSE LET isDescending == AirOrder(xs[2], xs[1]) < 0
             runLength == CountRunByAir(xs, 3, isDescending)
             made == IF isDescending
                     THEN Reverse(SubSeq(xs, 1, runLength))
                             \o SubSeq(xs, runLength + 1, Len(xs))
                     ELSE xs
         IN  BinaryInsertionSortByAir(made, runLength + 1)

\* The aired episodes of a season, newest first.
seasonEpisodes(showId, seasonNum) ==
    SortNewestFirst(SelectSeq(SeasonEpisodes[showId][seasonNum], HasAirDate))

\* The loop of getMoreEpisodes over the seasons from the i-th on: a season
\* whose request fails is passed over, and the loop ends with the season
\* that brings allEpisodes to offset + limit + 1.
RECURSIVE CollectSeasons(_, _, _, _, _)
CollectSeasons(showId, i, enough, failed, allEpisodes) ==
    IF i > Len(seasonNumbers(showId)) THEN allEpisodes
    ELSE IF seasonNumbers(showId)[i] \in failed
    THEN CollectSeasons(showId, i + 1, enough, failed, allEpisodes)
    ELSE IF Len(allEpisodes)
               + Len(seasonEpisodes(showId, seasonNumbers(showId)[i]))
            >= enough
    THEN allEpisodes \o seasonEpisodes(showId, seasonNumbers(showId)[i])
    ELSE CollectSeasons(showId, i + 1, enough, failed,
            allEpisodes \o seasonEpisodes(showId, seasonNumbers(showId)[i]))

\* The ids of a list of episodes: an EpisodeData is held as its id.
Ids(eps) == [i \in 1..Len(eps) |-> eps[i].id]

\* The list getMoreEpisodes slices: what the loop collected, sorted.
AllEpisodes(showId, offset, limit, failed) ==
    SortNewestFirst(
        CollectSeasons(showId, 1, offset + limit + 1, failed, <<>>))

\* What getMoreEpisodes({showId, offset, limit}) resolves to when the
\* requests for the seasons in failed fail (and that for the show does
\* not).
getMoreEpisodes(showId, offset, limit, failed) ==
    [episodes |->
        Ids(SliceFrom(AllEpisodes(showId, offset, limit, failed),
                      offset, offset + limit)),
     hasMore |->
        Len(AllEpisodes(showId, offset, limit, failed)) > offset + limit]

\* The season requests that may fail within one request for showId.
FailedSets(showId) ==
    {f \in SUBSET {n \in 1..3 : \E j \in 1..Len(ShowSeasons[showId]) :
                                    ShowSeasons[showId][j] = n} :
        Cardinality(f) <= MaxFailed}

\* getMoreEpisodes for the requests loadMore makes, each worked out once:
\* the request, the seasons that fail and what it resolves to.
Resolutions ==
    UNION {{[showId |-> showId, offset |-> offset, failed |-> failed,
             result |-> getMoreEpisodes(showId, offset, PageLimit, failed)] :
               offset \in 0..(MaxLoaded + MaxInFlight * PageLimit),
               failed \in FailedSets(showId)} : showId \in ShowIds}
Resolved(request, failed) ==
    (CHOOSE r \in Resolutions :
        /\ r.showId = request.showId
        /\ r.offset = request.offset
        /\ r.failed = failed).result

\* latestSeasonNumber of getLatestEpisodes
latestSeasonNumber(showId) == seasonNumbers(showId)[1]
\* The ten episodes getLatestEpisodes gives for a show.
LatestEpisodes(showId) ==
    Ids(SliceFrom(seasonEpisodes(showId, latestSeasonNumber(showId)), 0, 10))

\* The lists of shows the loader hands to the home page: one show or
\* more (a show whose requests fail is left out), each with its first page.
ShowOne == [tmdbId |-> 1, episodes |-> LatestEpisodes(1)]
ShowTwo == [tmdbId |-> 2, episodes |-> LatestEpisodes(2)]
ShowLists == {<<ShowOne>>, <<ShowTwo>>, <<ShowOne, ShowTwo>>}

\* record[key] || [] and record[key] (a boolean, undefined being falsy).
EpisodesOf(record, key) == IF key \in DOMAIN record THEN record[key] ELSE <<>>
Truthy(record, key) == key \in DOMAIN record /\ record[key]

\* { ...record, [key]: value }
With(record, key, value) ==
    [k \in DOMAIN record \cup {key} |-> IF k = key THEN value ELSE record[k]]

\* The loop of initialize over the shows from the i-th on: showEpisodes
\* and hasMore as built so far.
RECURSIVE InitializeLoop(_, _, _, _)
InitializeLoop(prev, shows, i, built) ==
    IF i > Len(shows) THEN built
    ELSE InitializeLoop(prev, shows, i + 1,
            [showEpisodes |->
                With(built.showEpisodes, shows[i].tmdbId,
                     IF \/ shows[i].tmdbId \notin DOMAIN prev.showEpisodes
                        \/ Len(prev.showEpisodes[shows[i].tmdbId])
                              <= Len(shows[i].episodes)
                     THEN shows[i].episodes
                     ELSE prev.showEpisodes[shows[i].tmdbId]),
             hasMore |->
                With(built.hasMore, shows[i].tmdbId,
                     IF shows[i].tmdbId \in DOMAIN prev.hasMore
                     THEN prev.hasMore[shows[i].tmdbId]
                     ELSE Len(shows[i].episodes) >= 10)])

\* The updater initialize hands to setState.
InitializeUpdater(prev, shows) ==
    IF prev.initialized /\ Len(prev.initialShows) = Len(shows) THEN prev
    ELSE [prev EXCEPT
            !.initialShows = shows,
            !.showEpisodes =
                InitializeLoop(prev, shows, 1,
                    [showEpisodes |-> NoKeys, hasMore |-> NoKeys]).showEpisodes,
            !.hasMore =
                InitializeLoop(prev, shows, 1,
                    [showEpisodes |-> NoKeys, hasMore |-> NoKeys]).hasMore,
            !.initialized = TRUE]

\* The last step was not a call of initialize.
NoProviderCall == [op |-> "none"]

\* The home page renders with the loader's shows and its effect calls
\* initialize(shows) (the lists of ShowLists are not empty); last holds the
\* call, the state it found and the state it left.
Initialize(shows) ==
    /\ loaderShows' = shows
    /\ state' = InitializeUpdater(state, shows)
    /\ last' = [op |-> "initialize", shows |-> shows,
                before |-> state, after |-> state']
    /\ UNCHANGED <<rendered, requests>>
    /\ UNCHANGED <<call, pc, ret, decisions, viewed, clientVars, sharedVars>>

\* The component renders: its callbacks are made anew.
Render ==
    /\ rendered # state
    /\ rendered' = state
    /\ last' = NoProviderCall
    /\ UNCHANGED <<state, requests, loaderShows>>
    /\ UNCHANGED <<call, pc, ret, decisions, viewed, clientVars, sharedVars>>

\* loadMore(showId), up to its await: nothing when the render it belongs
\* to saw the show loading; else the flag is set and the request made.
LoadMore(showId) ==
    /\ Len(requests) < MaxInFlight
    /\ Len(EpisodesOf(state.showEpisodes, showId)) < MaxLoaded
    /\ last' = NoProviderCall
    /\ IF Truthy(rendered.loadingMore, showId)
       THEN UNCHANGED <<state, requests>>
       ELSE /\ state' = [state EXCEPT
                           !.loadingMore = With(@, showId, TRUE)]
            /\ requests' =
                  Append(requests,
                         [showId |-> showId,
                          offset |-> Len(EpisodesOf(rendered.showEpisodes,
                                                    showId))])
    /\ UNCHANGED <<rendered, loaderShows>>
    /\ UNCHANGED <<call, pc, ret, decisions, viewed, clientVars, sharedVars>>

\* requests without its i-th.
Without(i) == SubSeq(requests, 1, i - 1) \o SubSeq(requests, i + 1, Len(requests))

\* The i-th request resolves, the season requests in failed having failed
\* on the server, and loadMore goes on after its await.
Resolve(i, failed) ==
    /\ i \in 1..Len(requests)
    /\ failed \in FailedSets(requests[i].showId)
    /\ state' =
          [state EXCEPT
             !.showEpisodes =
                With(@, requests[i].showId,
                     EpisodesOf(@, requests[i].showId)
                     \o Resolved(requests[i], failed).episodes),
             !.hasMore =
                With(@, requests[i].showId,
                     Resolved(requests[i], failed).hasMore),
             !.loadingMore = With(@, requests[i].showId, FALSE)]
    /\ requests' = Without(i)
    /\ last' = NoProviderCall
    /\ UNCHANGED <<rendered, loaderShows>>
    /\ UNCHANGED <<call, pc, ret, decisions, viewed, clientVars, sharedVars>>

\* The i-th request fails (the request for the show fails on the server,
\* or the call does not get through) and loadMore goes on in its catch.
Reject(i) ==
    /\ i \in 1..Len(requests)
    /\ state' = [state EXCEPT
                   !.loadingMore = With(@, requests[i].showId, FALSE)]
    /\ requests' = Without(i)
    /\ last' = NoProviderCall
    /\ UNCHANGED <<rendered, loaderShows>>
    /\ UNCHANGED <<call, pc, ret, decisions, viewed, clientVars, sharedVars>>

ProviderStart ==
    /\ call = [fn |-> "none"]
    /\ pc = "idle"
    /\ ret = <<>>
    /\ decisions = NoDecisions
    /\ viewed = {}
    /\ last = NoProviderCall
    /\ ClientInit
    /\ ProviderInit
    /\ SharedInit

\* The home page as rendered with the provider's last render (the view
\* filter being 'all').  displayShows: the provider's shows once it has
\* rendered initialized, the loader's before.
displayShows == IF rendered.initialized THEN rendered.initialShows ELSE loaderShows
\* hasMore[activeShow.tmdbId] ?? activeShow.episodes.length >= 10
activeHasMore(activeShow) ==
    IF activeShow.tmdbId \in DOMAIN rendered.hasMore
    THEN rendered.hasMore[activeShow.tmdbId]
    ELSE Len(activeShow.episodes) >= 10
\* loadingMore[activeShow.tmdbId] ?? false
activeLoading(showId) == Truthy(rendered.loadingMore, showId)

\* The show is one the page displays (any tab may be the active one), with
\* more episodes to load.
Displayed(showId) ==
    \E i \in 1..Len(displayShows) :
        displayShows[i].tmdbId = showId /\ activeHasMore(displayShows[i])

\* handleIntersection with the sentinel in view: onLoadMore is called when
\* the show has more and is not loading.
PageLoadsMore(showId) ==
    Displayed(showId) /\ ~activeLoading(showId) /\ LoadMore(showId)

ProviderNext ==
    \/ \E shows \in ShowLists : Initialize(shows)
    \/ Render
    \/ \E showId \in ShowIds : PageLoadsMore(showId)
    \/ \E i \in 1..MaxInFlight : \E failed \in SUBSET (1..3) : Resolve(i, failed)
    \/ \E i \in 1..MaxInFlight : Reject(i)

ProviderSpec == ProviderStart /\ [][ProviderNext]_vars

Scored == pc = "return" /\ call.fn = "calculateMatchScore"
Found == pc = "return" /\ call.fn = "findRelatedEpisodes"
Extracted == pc = "return" /\ call.fn = "extractKeyTerms"


(***************************************************************************)
(* Properties of the calls.                                                *)
(***************************************************************************)
\* The value a finished call returned, and the arguments of a ranking call.
Returned == ret[1]
Pool == call.allEpisodes
ScoreOf(candidate) == calculateMatchScore(call.episode, candidate).score

\* The last of the space-separated tokens of a name.
LastToken(n) == LET parts == SplitBlank(n) IN parts[Len(parts)]

\* Some extracted name of s and some extracted name of t are equal or share
\* their final token.
NameSignal(s, t) ==
    \E i \in 1..Len(TermsOf(s).names) : \E j \in 1..Len(TermsOf(t).names) :
        \/ TermsOf(s).names[i] = TermsOf(t).names[j]
        \/ LastToken(TermsOf(s).names[i]) = LastToken(TermsOf(t).names[j])

\* Result r is the entry built from candidate c.
IsResultOf(r, c) ==
    /\ r.episodeId = c.id
    /\ r.showTmdbId = c.showTmdbId
    /\ r.name = c.name
    /\ r.overview = c.overview
    /\ r.airDate = c.airDate
    /\ r.seasonNumber = c.seasonNumber
    /\ r.episodeNumber = c.episodeNumber

\* C1: findRelatedEpisodes(E, pool) returns no entry whose episodeId is
\* E.id, and calculateMatchScore returns score 0 with an empty reason
\* whenever source.id = target.id.
C1_NoSelfMatch ==
    /\ Found => \A i \in 1..Len(Returned) : Returned[i].episodeId # call.episode.id
    /\ (Scored /\ call.source.id = call.target.id)
          => (Returned.score = <<0, 0>> /\ Returned.reason = "")

\* C1 happens: the pool holds the source itself and another record with the
\* source's id, with every score admitted, and something else is returned.
C1_Witness ==
    /\ Found
    /\ call.options.minScore = <<0>>
    /\ \E i \in 1..Len(Pool) : Pool[i] = call.episode
    /\ \E i \in 1..Len(Pool) :
          Pool[i].id = call.episode.id /\ Pool[i] # call.episode
    /\ Len(Returned) > 0

\* C2: when no extracted name of the source and no extracted name of the
\* target are equal or share their final token, calculateMatchScore
\* returns score 0 and an empty reason, whatever locations and years the
\* two texts share.
C2_NameGate ==
    (Scored /\ ~NameSignal(call.source, call.target))
        => (Returned.score = <<0, 0>> /\ Returned.reason = "")

\* C2 happens: two different episodes without a name in common that share
\* a location and a year.
C2_Witness ==
    /\ Scored
    /\ call.source.id # call.target.id
    /\ ~NameSignal(call.source, call.target)
    /\ Intersect(TermsOf(call.source).locations,
                 TermsOf(call.target).locations) # <<>>
    /\ Intersect(TermsOf(call.source).years,
                 TermsOf(call.target).years) # <<>>

\* C3: every score calculateMatchScore returns lies between 0 and 1.
C3_ScoreBounds ==
    Scored => (FLe(<<0, 0>>, Returned.score) /\ FLe(Returned.score, <<100, 0>>))

\* C3 happens: three name matches, a shared location and a shared year
\* accumulate 0.95 + 0.2 + 0.1, and 1 is returned.
C3_Witness ==
    /\ Scored
    /\ call.source.id # call.target.id
    /\ Len(NameMatchLoop(TermsOf(call.source).names,
                         TermsOf(call.target).names, 1, 1, <<>>)) >= 3
    /\ Intersect(TermsOf(call.source).locations,
                 TermsOf(call.target).locations) # <<>>
    /\ Intersect(TermsOf(call.source).years,
                 TermsOf(call.target).years) # <<>>
    /\ Returned.score = <<100, 0>>

\* C4: calculateMatchScore(a, b) and calculateMatchScore(b, a) return the
\* same score.
C4_ScoreSymmetric ==
    Scored => Returned.score = calculateMatchScore(call.target, call.source).score

\* C4 happens: a pair with a positive score whose two sides differ in
\* their names, their locations and their years.
C4_Witness ==
    /\ Scored
    /\ FLt(<<0, 0>>, Returned.score)
    /\ Len(TermsOf(call.source).names) # Len(TermsOf(call.target).names)
    /\ TermsOf(call.source).locations # <<>>
    /\ TermsOf(call.target).locations = <<>>
    /\ TermsOf(call.source).years # TermsOf(call.target).years

\* C5: every entry findRelatedEpisodes returns has a score of at least
\* the minScore in effect (0.3 when not given).
C5_MinScore ==
    Found => \A i \in 1..Len(Returned) :
                FLe(OptMinScore(call.options), Returned[i].score)

\* C5 happens: under minScore 0.9 one candidate with a positive score
\* below 0.9 is left out and another is returned.
C5_Witness ==
    /\ Found
    /\ call.options.minScore = <<90>>
    /\ \E i \in 1..Len(Pool) :
          /\ Pool[i].id # call.episode.id
          /\ FLt(<<0, 0>>, ScoreOf(Pool[i]))
          /\ FLt(ScoreOf(Pool[i]), Dbl(90))
    /\ Len(Returned) > 0

\* Candidate c passes the loop's filters: it is not the source, it is not
\* of the source's show when excludeSameShow is set, and its score reaches
\* the minScore in effect.
Qualifies(c) ==
    /\ c.id # call.episode.id
    /\ ~(OptExcludeSameShow(call.options)
         /\ c.showTmdbId = call.episode.showTmdbId)
    /\ FLe(OptMinScore(call.options), ScoreOf(c))
QualifyingCount == Cardinality({i \in 1..Len(Pool) : Qualifies(Pool[i])})

\* C6 as stated: findRelatedEpisodes returns at most maxResults entries,
\* for every source, pool and value of maxResults (5 when not given).
C6_AtMostMaxResults ==
    Found => Len(Returned) <= OptMaxResults(call.options)

\* C6 as the code has it: for every maxResults >= 0 (5 when not given) at
\* most maxResults entries are returned; a negative maxResults -k returns
\* the qualifying candidates less the last k of their sorted list.
C6_Truncated ==
    Found =>
        IF OptMaxResults(call.options) >= 0
        THEN Len(Returned) <= OptMaxResults(call.options)
        ELSE Len(Returned)
                = Max(QualifyingCount + OptMaxResults(call.options), 0)

\* C6 happens: a maxResults >= 0 is given and more candidates qualify
\* than it admits.
C6_Witness ==
    /\ Found
    /\ call.options.maxResults # <<>>
    /\ OptMaxResults(call.options) >= 1
    /\ QualifyingCount > OptMaxResults(call.options)
    /\ Len(Returned) = OptMaxResults(call.options)

\* C7: for every i < j of the returned list, when the two scores differ
\* by more than 0.05 the entry at i has the higher score, and otherwise
\* the entry at i has an air date not earlier than the entry at j, a
\* missing air date counting as epoch zero.  An air date that names no
\* day is left unconstrained.
C7_PairwiseOrder ==
    Found => \A i \in 1..Len(Returned) : \A j \in 1..Len(Returned) :
        i < j =>
            IF FLt(Dbl(5), FAbs(FSub(Returned[i].score, Returned[j].score)))
            THEN FLt(Returned[j].score, Returned[i].score)
            ELSE \/ DateOf(Returned[i]).nan
                 \/ DateOf(Returned[j]).nan
                 \/ DateOf(Returned[i]).t >= DateOf(Returned[j]).t

\* The qualifying candidates that are not returned.
Dropped ==
    {c \in {Pool[i] : i \in 1..Len(Pool)} :
        Qualifies(c) /\ \A i \in 1..Len(Returned) : ~IsResultOf(Returned[i], c)}

\* C8: no qualifying candidate dropped by maxResults has a score more
\* than 0.05 above the score of a returned entry.  Stated for the calls
\* whose maxResults is absent or >= 0, where the head of the sorted list
\* is what is kept.
C8_TruncationKeepsBest ==
    (Found /\ OptMaxResults(call.options) >= 0) =>
        \A c \in Dropped : \A i \in 1..Len(Returned) :
            ~FLt(Dbl(5), FSub(ScoreOf(c), Returned[i].score))

\* No two candidates of the pool have scores within 0.05 of each other
\* and equal air dates.
NoTiedPair ==
    \A i \in 1..Len(Pool) : \A j \in 1..Len(Pool) :
        i < j => ~(/\ FLe(FAbs(FSub(ScoreOf(Pool[i]), ScoreOf(Pool[j]))), Dbl(5))
                   /\ Pool[i].airDate = Pool[j].airDate)

\* Every air date of the pool is absent or names a day of the calendar.
DatesWellFormed ==
    \A i \in 1..Len(Pool) :
        Pool[i].airDate = <<>> \/ ~GetTime(Pool[i].airDate[1]).nan

\* The pool in every order.
PoolOrders ==
    {[i \in 1..Len(Pool) |-> Pool[f[i]]] : f \in Permutations(1..Len(Pool))}

\* C9: provided no two candidates have scores within 0.05 of each other
\* and equal air dates, every order of the pool gives the same list.
\* Stated for the pools whose air dates are all well formed.
C9_OrderIndependent ==
    (Found /\ NoTiedPair /\ DatesWellFormed) =>
        \A p \in PoolOrders :
            findRelatedEpisodes(call.episode, p, call.options) = Returned

\* C10: a candidate without a name in common with the source is in no
\* returned list, for any options, any value of minScore included.
C10_NamelessOmitted ==
    Found => \A k \in 1..Len(Pool) :
        ~NameSignal(call.episode, Pool[k])
            => \A i \in 1..Len(Returned) : ~IsResultOf(Returned[i], Pool[k])

\* C11: with excludeSameShow true no returned entry is of the source's
\* show; with excludeSameShow false or absent a candidate of the source's
\* show is filtered by its score alone: when it is not the source itself,
\* its score reaches minScore and the list is not cut short, it is
\* returned.
C11_ExcludeSameShow ==
    Found =>
        IF OptExcludeSameShow(call.options)
        THEN \A i \in 1..Len(Returned) :
                Returned[i].showTmdbId # call.episode.showTmdbId
        ELSE \A k \in 1..Len(Pool) :
                (/\ Pool[k].showTmdbId = call.episode.showTmdbId
                 /\ Pool[k].id # call.episode.id
                 /\ FLe(OptMinScore(call.options), ScoreOf(Pool[k]))
                 /\ QualifyingCount <= OptMaxResults(call.options))
                    => \E i \in 1..Len(Returned) : IsResultOf(Returned[i], Pool[k])

\* C11 happens: excludeSameShow is true, the pool holds another episode of
\* the source's show whose score reaches minScore, and an episode of
\* another show is returned.
C11_Witness ==
    /\ Found
    /\ call.options.excludeSameShow = <<TRUE>>
    /\ \E k \in 1..Len(Pool) :
          /\ Pool[k].showTmdbId = call.episode.showTmdbId
          /\ Pool[k].id # call.episode.id
          /\ FLe(OptMinScore(call.options), ScoreOf(Pool[k]))
    /\ Len(Returned) > 0

\* The quantities of the reference formula for a source s and a target t:
\* n, the number of (source name, target name) pairs that are equal or
\* share a surname; L, the location sets intersect; Y, the year sets
\* intersect.
RefN(s, t) ==
    Cardinality({p \in (1..Len(TermsOf(s).names)) \X (1..Len(TermsOf(t).names)) :
        \/ TermsOf(s).names[p[1]] = TermsOf(t).names[p[2]]
        \/ LastToken(TermsOf(s).names[p[1]]) = LastToken(TermsOf(t).names[p[2]])})
RefL(s, t) ==
    {TermsOf(s).locations[i] : i \in 1..Len(TermsOf(s).locations)}
        \cap {TermsOf(t).locations[i] : i \in 1..Len(TermsOf(t).locations)} # {}
RefY(s, t) ==
    {TermsOf(s).years[i] : i \in 1..Len(TermsOf(s).years)}
        \cap {TermsOf(t).years[i] : i \in 1..Len(TermsOf(t).years)} # {}

\* min(1, 0.5 + 0.15 * min(n, 3) + (L ? 0.2 : 0) + (Y ? 0.1 : 0)), or 0
\* when n = 0, in double arithmetic, summed from the left.
RefScore(s, t) ==
    IF RefN(s, t) = 0 THEN <<0, 0>>
    ELSE FMin(<<100, 0>>,
              FAdd(FAdd(FAdd(Dbl(50), FMulInt(Min(RefN(s, t), 3), Dbl(15))),
                        IF RefL(s, t) THEN Dbl(20) ELSE <<0, 0>>),
                   IF RefY(s, t) THEN Dbl(10) ELSE <<0, 0>>))

\* C12: for every pair with distinct ids calculateMatchScore returns the
\* value of the reference formula; hence no non-zero score is below 0.65,
\* and one name match with a shared location and no shared year gives
\* 0.65 + 0.2.
C12_ReferenceFormula ==
    (Scored /\ call.source.id # call.target.id) =>
        /\ Returned.score = RefScore(call.source, call.target)
        /\ Returned.score # <<0, 0>> => FLe(Dbl(65), Returned.score)
        /\ (/\ RefN(call.source, call.target) = 1
            /\ RefL(call.source, call.target)
            /\ ~RefY(call.source, call.target))
              => Returned.score = FAdd(Dbl(65), Dbl(20))

\* C12 happens: a pair of different episodes with one matching name pair,
\* a shared location and no shared year.
C12_Witness ==
    /\ Scored
    /\ call.source.id # call.target.id
    /\ RefN(call.source, call.target) = 1
    /\ RefL(call.source, call.target)
    /\ ~RefY(call.source, call.target)
    /\ FLt(Dbl(65), Returned.score)

\* The surnames a name of s and a different name of t have in common, and
\* whether s and t have an equal name.
SharedSurnames(s, t) ==
    {LastToken(TermsOf(s).names[p[1]]) :
        p \in {q \in (1..Len(TermsOf(s).names)) \X (1..Len(TermsOf(t).names)) :
                 /\ TermsOf(s).names[q[1]] # TermsOf(t).names[q[2]]
                 /\ Len(SplitBlank(TermsOf(s).names[q[1]])) >= 2
                 /\ Len(SplitBlank(TermsOf(t).names[q[2]])) >= 2
                 /\ LastToken(TermsOf(s).names[q[1]])
                       = LastToken(TermsOf(t).names[q[2]])}}
HaveEqualName(s, t) ==
    \E i \in 1..Len(TermsOf(s).names) : \E j \in 1..Len(TermsOf(t).names) :
        TermsOf(s).names[i] = TermsOf(t).names[j]

\* C13: when source and target match only by a surname S, and share no
\* location and no year, the reason is the capitalized surname followed
\* by " (last name)".
C13_SurnameReason ==
    (/\ Scored
     /\ call.source.id # call.target.id
     /\ ~HaveEqualName(call.source, call.target)
     /\ ~RefL(call.source, call.target)
     /\ ~RefY(call.source, call.target))
        => \A S \in SharedSurnames(call.source, call.target) :
              SharedSurnames(call.source, call.target) = {S}
                 => Returned.reason = UpperFirstPart(S) \o " (last name)"

\* The name "john smith" as the extractor stores it.
JohnSmith == <<"john", " ", "smith">>

\* calculateMatchScore was called on the episode titled "The Smith Murder
\* Case" (no overview) and the episode titled "Who Killed John Smith?"
\* with the overview "The murder of John Smith shocks the town.".
SmithCaseScored ==
    Scored /\ call.source = EpSmithCase /\ call.target = EpWhoKilledTown

\* C14 as stated: both texts yield the name "john smith", and the score is
\* at least 0.65 with a reason that has "John Smith" in it.
C14_SmithCaseMatches ==
    SmithCaseScored =>
        /\ SeqHas(TermsOf(call.source).names, JohnSmith)
        /\ SeqHas(TermsOf(call.target).names, JohnSmith)
        /\ FLe(Dbl(65), Returned.score)
        /\ Returned.reason = "John Smith"

\* C14 as the code has it: the title "The Smith Murder Case" yields no
\* name ("The Smith" and "Murder Case" are dropped for their stop words),
\* the candidate's text yields "john smith" alone, and the score is 0 with
\* an empty reason.
C14_SmithCaseUnmatched ==
    SmithCaseScored =>
        /\ TermsOf(call.source).names = <<>>
        /\ TermsOf(call.target).names = <<JohnSmith>>
        /\ Returned.score = <<0, 0>>
        /\ Returned.reason = ""

\* C14 happens: the call on the two episodes has returned.
C14_Witness ==
    /\ SmithCaseScored
    /\ TermsOf(call.target).names # <<>>
    /\ Returned.score = <<0, 0>>

\* C15: after any calls of the handlers, in any order, the array they share
\* holds the records it was loaded with, in the order it was loaded with;
\* the call just made has left its source episode as it was passed; and it
\* has returned what the same call returns on the array as loaded, which is
\* what it returns when it is the only call made.
C15_InputsUnchanged ==
    /\ pool = given
    /\ pc = "return" => call.episode = call.source
    /\ (pc = "return" /\ call.fn = "findRelatedEpisodes") =>
          ret = <<findRelatedEpisodes(call.source, given, call.options)>>
    /\ (pc = "return" /\ call.fn = "calculateMatchScore") =>
          ret = <<calculateMatchScore(call.source, given[call.target])>>

\* C15 happens: every handler has called on the one array, and the last
\* call, a ranking, pushed two candidates to its results and sorted them
\* into the opposite of their order in the array.
C15_Witness ==
    /\ pc = "return"
    /\ call.fn = "findRelatedEpisodes"
    /\ \A caller \in Callers : call.made[caller] >= 1
    /\ \E i \in 1..Len(ret[1]) : \E j \in 1..Len(ret[1]) :
          /\ i < j
          /\ \E k \in 1..Len(pool) : \E l \in 1..Len(pool) :
                /\ l < k
                /\ IsResultOf(ret[1][i], pool[k])
                /\ IsResultOf(ret[1][j], pool[l])

\* Name n is spelled somewhere in text t by two capitalized words.
SpelledCapitalized(t, n) ==
    \E i \in 1..Len(t) :
        /\ IsCapWord(t, i) /\ IsSpace(t, i + 1) /\ IsCapWord(t, i + 2)
        /\ SplitWs(n) = <<t[i].lc, t[i + 2].lc>>

\* C16: the role-cue rule contributes a name only when the two words after
\* the cue are each capitalized in the text, so every extracted name is
\* spelled in the text by two capitalized words; two lowercase words
\* after a cue never become a name.
C16_CueNamesCapitalized ==
    Extracted => \A k \in 1..Len(Returned.names) :
                    SpelledCapitalized(call.text, Returned.names[k])

\* C17: every extracted name is exactly two lowercase words separated by
\* one space, and neither word is a stop word or a state fragment.
C17_NameShape ==
    Extracted => \A k \in 1..Len(Returned.names) :
        LET n == Returned.names[k] IN
        /\ Len(n) = 3
        /\ n[2] = " "
        /\ n[1] \notin STOP_WORDS \cup US_STATES
        /\ n[3] \notin STOP_WORDS \cup US_STATES

\* The 4-digit numbers of text t that stand alone (no letter, digit or
\* underscore next to them) and lie in 1970..2029.
StandaloneYears(t) ==
    {t[i].lc : i \in {j \in 1..Len(t) :
        /\ t[j].k = "n" /\ Len(t[j].lc) = 4
        /\ t[j].v \in 1970..2029
        /\ ~IsWordChar(t, j - 1) /\ ~IsWordChar(t, j + 1)}}

\* C18: the years extracted are exactly the distinct standalone 4-digit
\* numbers of the text in 1970..2029, each once.
C18_Years ==
    Extracted =>
        /\ {Returned.years[k] : k \in 1..Len(Returned.years)}
              = StandaloneYears(call.text)
        /\ \A k \in 1..Len(Returned.years) : \A l \in 1..Len(Returned.years) :
              Returned.years[k] = Returned.years[l] => k = l

\* C18 happens: the text has a standalone year below 1970, one above
\* 2029, a year of the range twice, a 4-digit run inside a longer token,
\* and the years 1970 and 2029 themselves.
C18_Witness ==
    /\ Extracted
    /\ \E i \in 1..Len(call.text) : call.text[i].k = "n" /\ call.text[i].v = 1969
    /\ \E i \in 1..Len(call.text) : call.text[i].k = "n" /\ call.text[i].v = 2030
    /\ \E i \in 1..Len(call.text) : \E j \in 1..Len(call.text) :
          i < j /\ call.text[i].k = "n" /\ call.text[i] = call.text[j]
                /\ call.text[i].v \in 1970..2029
    /\ \E i \in 1..Len(call.text) :
          /\ call.text[i].k = "n" /\ Len(call.text[i].lc) = 4
          /\ call.text[i].v \in 1970..2029
          /\ IsWordChar(call.text, i + 1)
    /\ Returned.years = <<"1970", "2029", "2021">>

(***************************************************************************)
(* The decision store and the viewed store.                                *)
(***************************************************************************)
\* The records stored for the unordered pair {a, b}.
RecordsOfPair(a, b) ==
    {k \in DOMAIN decisions :
        {decisions[k].sourceEpisodeId, decisions[k].matchedEpisodeId} = {a, b}}

\* C19: decisions are keyed by the unordered pair: getDecision(a, b) and
\* getDecision(b, a) agree in every state and a pair holds at most one
\* record; right after saveDecision(b, a, d) both orders read d, whatever
\* was saved for the pair before, and right after removeDecision(b, a)
\* both orders read null.
C19_UnorderedPairKey ==
    /\ \A a \in EpisodeIds : \A b \in EpisodeIds :
          /\ getDecision(a, b) = getDecision(b, a)
          /\ Cardinality(RecordsOfPair(a, b)) <= 1
    /\ last.op = "saveDecision" =>
          /\ getDecision(last.a, last.b) = last.d
          /\ getDecision(last.b, last.a) = last.d
    /\ last.op = "removeDecision" =>
          /\ getDecision(last.a, last.b) = <<>>
          /\ getDecision(last.b, last.a) = <<>>

\* C19 happens: the last call saved a decision with the larger id first,
\* next to a record of another pair, and the smaller-id-first order reads
\* it back.
C19_Witness ==
    /\ last.op = "saveDecision"
    /\ last.a > last.b
    /\ getDecision(last.b, last.a) = last.d
    /\ Cardinality(DOMAIN decisions) > 1

\* One confirmed hop, and the episodes within n confirmed hops of e.
ConfirmedStep(S) == S \cup UNION {getConfirmedMatchIds(y) : y \in S}
RECURSIVE WithinHops(_, _)
WithinHops(e, n) ==
    IF n = 0 THEN {e} ELSE ConfirmedStep(WithinHops(e, n - 1))

\* Connected to e by a chain of confirmed decisions of any length: a chain
\* without repeats has fewer hops than there are episodes.
ConnectedByConfirmed(e) == WithinHops(e, Cardinality(EpisodeIds) - 1)

AfterMarkAsViewed == last.op = "markAsViewed"

\* C20 as stated: right after markAsViewed(e), isViewed(x) for every x
\* connected to e by a chain of confirmed decisions of any length.
C20_TransitiveViewed ==
    AfterMarkAsViewed =>
        \A x \in ConnectedByConfirmed(last.a) : isViewed(x)

\* C20: right after markAsViewed(e), e and the episodes one confirmed hop
\* from e carry the flag, and isViewed(x) for every x within two confirmed
\* hops of e.
C20_TwoHopsViewed ==
    AfterMarkAsViewed =>
        /\ WithinHops(last.a, 1) \subseteq getAllViewed
        /\ \A x \in WithinHops(last.a, 2) : isViewed(x)

\* C20 happens: right after markAsViewed(e) an episode exactly two
\* confirmed hops from e, carrying no flag itself, is reported viewed.
C20_Witness ==
    /\ AfterMarkAsViewed
    /\ \E x \in WithinHops(last.a, 2) \ WithinHops(last.a, 1) :
          x \notin getAllViewed /\ isViewed(x)

AfterToggleViewed == last.op = "toggleViewed"

\* C21: the boolean toggleViewed(e) returns is isViewed(e) evaluated right
\* after the call.
C21_ToggleReturnsNewState ==
    AfterToggleViewed => last.ret = <<isViewed(last.a)>>

\* C21 happens: toggleViewed(e) returned false for an episode with a
\* confirmed related episode.
C21_Witness ==
    /\ AfterToggleViewed
    /\ last.ret = <<FALSE>>
    /\ getConfirmedMatchIds(last.a) # {}

\* C29: a toggleViewed(e) step inverts isViewed(e).
C29_ToggleInverts ==
    [][\A e \in EpisodeIds :
          ToggleViewed(e) => (isViewed(e)' = ~isViewed(e))]_vars

\* C30: for every episode a the confirmed and the denied match ids are
\* disjoint, and b is a confirmed match of a exactly when a is one of b.
C30_OneDecisionPerPair ==
    \A a \in EpisodeIds :
        /\ getConfirmedMatchIds(a) \cap getDeniedMatchIds(a) = {}
        /\ \A b \in EpisodeIds :
              /\ b \in getConfirmedMatchIds(a) <=> a \in getConfirmedMatchIds(b)
              /\ b \in getDeniedMatchIds(a) <=> a \in getDeniedMatchIds(b)

\* C30 happens: an episode has a confirmed and a denied match, the last
\* call saved a decision with the larger id first, and the smaller id
\* lists the larger under that decision.
C30_Witness ==
    /\ last.op = "saveDecision"
    /\ last.a > last.b
    /\ last.a \in MatchIdsWith(last.b, last.d[1])
    /\ \E a \in EpisodeIds :
          getConfirmedMatchIds(a) # {} /\ getDeniedMatchIds(a) # {}

(***************************************************************************)
(* The reason string.                                                      *)
(***************************************************************************)
\* The entries a name match can push for s and t: a name both have, or a
\* shared surname with its tag.
NameEntries(s, t) ==
    {TermsOf(s).names[i] : i \in {k \in 1..Len(TermsOf(s).names) :
        \E j \in 1..Len(TermsOf(t).names) :
            TermsOf(s).names[k] = TermsOf(t).names[j]}}
    \cup {S \o <<" ", "(last", " ", "name)">> : S \in SharedSurnames(s, t)}

\* The reasons that begin with one or two title-cased name entries of s and
\* t, followed or not by a shared location and by a shared year.
NamingReasons(s, t) ==
    LET one == {TitleCase(m) : m \in NameEntries(s, t)}
        names == one \cup {a \o ", " \o b : a \in one, b \in one}
        locs == {""} \cup
                {" - " \o UpperFirst(l[1]) \o TermStr(Tail(l)) :
                    l \in {TermsOf(s).locations[i] :
                              i \in 1..Len(TermsOf(s).locations)}}
        years == {""} \cup
                 {" - " \o y : y \in {TermsOf(s).years[i] :
                                        i \in 1..Len(TermsOf(s).years)}}
    IN  {n \o l \o y : n \in names, l \in locs, y \in years}

\* C25: calculateMatchScore returns a non-empty reason exactly when it
\* returns a positive score, and a reason returned with a positive score,
\* by calculateMatchScore or in a MatchResult, begins with a matched name.
C25_ReasonIffPositive ==
    /\ Scored =>
          /\ Returned.reason # "" <=> FLt(<<0, 0>>, Returned.score)
          /\ FLt(<<0, 0>>, Returned.score) =>
                Returned.reason \in NamingReasons(call.source, call.target)
    /\ Found =>
          \A i \in 1..Len(Returned) :
              /\ Returned[i].matchReason # "" <=> FLt(<<0, 0>>, Returned[i].score)
              /\ FLt(<<0, 0>>, Returned[i].score) =>
                    \E k \in 1..Len(Pool) :
                        /\ IsResultOf(Returned[i], Pool[k])
                        /\ Returned[i].matchReason
                              \in NamingReasons(call.episode, Pool[k])

\* C25 happens: a pair sharing a location and a year and no name scores 0
\* with an empty reason, or a pair scores above 0 with a reason of a name,
\* a location and a year.
C25_Witness ==
    /\ Scored
    /\ call.source.id # call.target.id
    /\ \/ /\ RefL(call.source, call.target) /\ RefY(call.source, call.target)
          /\ RefN(call.source, call.target) = 0
          /\ Returned.reason = "" /\ Returned.score = <<0, 0>>
       \/ /\ RefL(call.source, call.target) /\ RefY(call.source, call.target)
          /\ FLt(<<0, 0>>, Returned.score)
          /\ Returned.reason \in NamingReasons(call.source, call.target)

(***************************************************************************)
(* The rules of extractNames.                                              *)
(***************************************************************************)
\* The scan of the two-capitalized-word rule matches at token i of t: the
\* pattern matches there and the scan did not match two tokens before.
RECURSIVE PairScanned(_, _)
PairScanned(t, i) ==
    /\ FullNameAt(t, i)
    /\ ~(i > 2 /\ PairScanned(t, i - 2))

\* The words at j and j + 2 of t are matched by a rule somewhere other than
\* by the two-word rule at j.
ProducedElsewhere(t, j) ==
    \/ \E k \in 1..Len(t) :
          /\ k # j /\ PairScanned(t, k)
          /\ <<t[k].lc, t[k + 2].lc>> = <<t[j].lc, t[j + 2].lc>>
    \/ \E k \in 1..Len(t) :
          /\ PossessiveLen(t, k) = 3
          /\ <<t[k].lc, t[k + 2].lc>> = <<t[j].lc, t[j + 2].lc>>
    \/ \E k \in 1..Len(t) :
          /\ ContextAt(t, k)
          /\ <<t[k + CueLen(t, k) + 1].lc, t[k + CueLen(t, k) + 3].lc>>
                = <<t[j].lc, t[j + 2].lc>>

\* Three capitalized words in a row start at token i of t, the scan matches
\* the first two and skips them, and the last two would pass every filter.
RejectedThenGood(t, i) ==
    /\ PairScanned(t, i)
    /\ ~FullNameKeep(t[i].lc, t[i + 2].lc)
    /\ FullNameAt(t, i + 2)
    /\ FullNameKeep(t[i + 2].lc, t[i + 4].lc)

\* C26: a pair the two-capitalized-word rule rejects consumes both of its
\* words: of three capitalized words in a row whose first pair is matched
\* and rejected, the second and third are not extracted as a name, unless
\* the text spells them again where a rule matches them.
C26_RejectedPairConsumesBoth ==
    Extracted => \A i \in 1..Len(call.text) :
        (RejectedThenGood(call.text, i) /\ ~ProducedElsewhere(call.text, i + 2))
        => ~SeqHas(Returned.names,
                   <<call.text[i + 2].lc, " ", call.text[i + 4].lc>>)

\* C26 happens: the text begins with a stop word and two capitalized words
\* that pass every filter, and no name was extracted from it.
C26_Witness ==
    /\ Extracted
    /\ RejectedThenGood(call.text, 1)
    /\ call.text[1].lc \in STOP_WORDS
    /\ ~ProducedElsewhere(call.text, 3)
    /\ Returned.names = <<>>

\* C27: no extracted name is one of the fixed geographic bigrams, and no
\* extracted name has the same first and second word, whichever rule
\* matched it.
C27_NoPlacePairNoRepeat ==
    Extracted => \A k \in 1..Len(Returned.names) :
        LET words == SplitWs(Returned.names[k]) IN
        /\ <<words[1], " ", words[2]>> \notin skipPairs
        /\ words[1] # words[2]

(***************************************************************************)
(* findMatchingCases.                                                      *)
(***************************************************************************)
Matched == pc = "return" /\ call.fn = "findMatchingCases"
ThresholdGiven == IF call.threshold = <<>> THEN <<3, 5>> ELSE call.threshold[1]
SimilarityTo(name) ==
    compareTwoStrings(toLowerCase(call.searchText), toLowerCase(name))

\* The score a field of names qualifies with: that of its first name that
\* reaches the threshold.
FieldScores(names) ==
    LET reaching == {i \in 1..Len(names) :
                        QLe(ThresholdGiven, SimilarityTo(names[i]))}
    IN  {SimilarityTo(names[i]) :
            i \in {k \in reaching : \A l \in reaching : k <= l}}

\* The scores case c qualifies with: that of its name, or else those of its
\* victim names and of its perpetrator names.
QualifyingScores(c) ==
    IF QLe(ThresholdGiven, SimilarityTo(c.name)) THEN {SimilarityTo(c.name)}
    ELSE FieldScores(OrEmpty(c.victim_names))
         \cup FieldScores(OrEmpty(c.perpetrator_names))

\* C23: findMatchingCases returns its results in non-increasing score
\* order, every case id at most once, each case that qualifies once, and
\* the entry retained for a case carries the highest of the scores the
\* case qualifies with on its fields.
C23_SortedUniqueHighest ==
    Matched =>
        /\ \A i \in 1..(Len(Returned) - 1) :
              QLe(Returned[i + 1].score, Returned[i].score)
        /\ \A i \in 1..Len(Returned) : \A j \in 1..Len(Returned) :
              i # j => Returned[i].item.id # Returned[j].item.id
        /\ \A k \in 1..Len(call.cases) :
              QualifyingScores(call.cases[k]) # {} =>
                 \E i \in 1..Len(Returned) :
                    /\ Returned[i].item.id = call.cases[k].id
                    /\ Returned[i].score \in QualifyingScores(call.cases[k])
                    /\ \A q \in QualifyingScores(call.cases[k]) :
                          QLe(q, Returned[i].score)
        /\ \A i \in 1..Len(Returned) :
              \E k \in 1..Len(call.cases) : Returned[i].item = call.cases[k]

\* C23 happens: a case qualified on its victim names and, with a higher
\* score, on its perpetrator names; the entry returned for it is the
\* perpetrator one, behind or ahead of the entry of another case.
C23_Witness ==
    /\ Matched
    /\ Len(Returned) >= 2
    /\ \E k \in 1..Len(call.cases) : \E i \in 1..Len(Returned) :
          /\ Cardinality(QualifyingScores(call.cases[k])) = 2
          /\ Returned[i].item = call.cases[k]
          /\ Returned[i].matchedOn = "perpetrator"
          /\ \A q \in QualifyingScores(call.cases[k]) : QLe(q, Returned[i].score)

(***************************************************************************)
(* The rate limiter of TMDbClient.                                         *)
(***************************************************************************)
\* A call that did not sleep issues its request while another call, made
\* before it, is still asleep.
IssuesAheadOfSleeper ==
    /\ awaiting' < awaiting
    /\ HowMany(issued') > HowMany(issued)
    /\ sleeping # NoTimes

\* C22: no more than 40 requests are issued within any 10-second window,
\* however many callers have invoked fetch, and no call issues its request
\* ahead of a call queued before it.
C22_RateLimitKept ==
    /\ [](HowMany(issued) <= RATE_LIMIT_REQUESTS)
    /\ [][~IssuesAheadOfSleeper]_vars

(***************************************************************************)
(* EpisodeProvider.                                                        *)
(***************************************************************************)
AfterInitialize == last.op = "initialize"
ShowIdsOf(shows) == {shows[i].tmdbId : i \in 1..Len(shows)}

\* C24: initialize(shows) leaves the state as it was only when it was
\* initialized with the same shows; with any other list of shows it
\* replaces initialShows and rebuilds showEpisodes and hasMore for the
\* shows of the list; and no show's episode list gets shorter.
C24_InitializeReplaces ==
    AfterInitialize =>
        /\ last.after = last.before =>
              (last.before.initialized /\ last.before.initialShows = last.shows)
        /\ ~(last.before.initialized /\ last.before.initialShows = last.shows) =>
              /\ last.after.initialShows = last.shows
              /\ last.after.initialized
              /\ DOMAIN last.after.showEpisodes = ShowIdsOf(last.shows)
              /\ DOMAIN last.after.hasMore = ShowIdsOf(last.shows)
        /\ \A id \in DOMAIN last.before.showEpisodes
                        \cap DOMAIN last.after.showEpisodes :
              Len(last.after.showEpisodes[id])
                 >= Len(last.before.showEpisodes[id])

\* The requests in flight for show id.
InFlightFor(id) == {i \in 1..Len(requests) : requests[i].showId = id}

\* C28: for each show at most one getMoreEpisodes request is in flight, no
\* episode stands twice in the show's list, and loadingMore is not left
\* true for a show with no request in flight.
C28_OneLoadPerShow ==
    \A id \in ShowIds :
        /\ Cardinality(InFlightFor(id)) <= 1
        /\ \A i \in 1..Len(EpisodesOf(state.showEpisodes, id)) :
              \A j \in 1..Len(EpisodesOf(state.showEpisodes, id)) :
                 i # j => state.showEpisodes[id][i] # state.showEpisodes[id][j]
        /\ InFlightFor(id) = {} => ~Truthy(state.loadingMore, id)

=============================================================================
